---------------------------- MODULE Spec2Model ----------------------------
(***************************************************************************)
(* Badge verification service: the minting orchestrator (MintingService),  *)
(* the verification session manager (VerificationService), the eligibility *)
(* evaluator (EligibilityService) and the event bus (WebSocketService,     *)
(* WebSocketEventsService), as state machines over the rows of the store,  *)
(* the connection registry and the requests in flight.                     *)
(*                                                                         *)
(* Every `await` of a handler is a point where other handlers may run, so  *)
(* a handler is a sequence of atomic steps, one per database access or     *)
(* external call; the position of each request is its pc.                  *)
(*                                                                         *)
(* repository.save(entity) writes the in-memory entity over the row: the   *)
(* columns that differ from the row are updated with the entity's values,  *)
(* whatever another request stored in between.                             *)
(***************************************************************************)
EXTENDS Integers, Sequences, FiniteSets, Bags, TLC

\* ---------------------------------------------------------------- bounds
MaxProcs == 2       \* requests that may be in flight together
MaxMints == 2       \* BadgeMint rows ever inserted
MaxOps == 4         \* minting operations ever started
MaxClients == 2     \* connections ever accepted by the event bus
MaxBusOps == 5      \* steps that ever change the connection registry
MaxSessions == 2    \* Verification rows ever inserted
MaxVerifOps == 4    \* verification operations ever started
MaxNow == 3         \* the last reading of the clock
MaxTokens == 2      \* token ids the ledger contract ever hands out
MaxTxs == 4         \* transactions ever sent to the ledger contract

\* ------------------------------------------------------------- constants
NoExpiry == 0 - 1   \* expiresAt IS NULL
ExpiryWindow == 2   \* expiresInMinutes, in ticks of the model's clock

WalletInputs == {"0xAA", "0xaa", "0xbb"}
Providers == {"polygonid", "idos"}

\* String.prototype.toLowerCase on the wallet strings of the model
ToLower(w) == IF w = "0xAA" THEN "0xaa" ELSE w

Procs == 1..MaxProcs

VARIABLES
    badgeTypes,     \* badge_types rows: [key, isActive, rules]
    verifs,         \* verifications rows, a sequence; the index is the id
    now,            \* the clock read by new Date()
    mints,          \* badge_mints rows, a sequence; the index is the id
    req,            \* the minting requests in flight, one per slot
    lastRet,        \* what the minting operation that ended last returned
    published,      \* bag of the events handed to sendToWallet / sendToChannel
    hasMintedBadge, \* BadgeSBT.hasMintedBadge, as a set of <<address, badge key>>
    nextTokenId,    \* BadgeSBT._nextTokenId
    web3Configured, \* Web3Service.isConfigured: FALSE is the mock mode
    opCount,        \* minting operations started so far
    registry,       \* WebSocketService.clients: the ids that are keys of the map
    clients,        \* the WebSocketClient object of each id: [isAlive, subscriptions, user]
    sockets,        \* each id's socket: [readyState, wallet], wallet the query parameter
    lastCall,       \* the sendToWallet / sendToChannel / broadcast call of the last step
    delivered,      \* the ids whose socket that call wrote its message to
    lastReply,      \* the message the last step wrote in answer to a connection
    busOps,         \* steps that changed the connection registry so far
    elig,           \* the last checkEligibility call: its arguments and result
    vreq,           \* the verification requests in flight, one per slot
    vret,           \* what the verification operation that ended last returned
    vOps,           \* verification operations started so far
    tokenOwners,    \* BadgeSBT (ERC721) _owners: the holder of each token id
    tokenApprovals, \* BadgeSBT (ERC721) _tokenApprovals
    contractOwner,  \* BadgeSBT (Ownable) _owner
    sbtTypes,       \* BadgeSBT.badgeTypes: [isActive, maxSupply, mintedCount]
    lastTx,         \* the last transaction sent to BadgeSBT and how it ended
    txCount         \* transactions sent to BadgeSBT so far

mintVars == <<badgeTypes, verifs, now, mints, req, lastRet, published,
              hasMintedBadge, nextTokenId, web3Configured, opCount>>

busVars == <<registry, clients, sockets, lastCall, delivered, lastReply, busOps>>

verifVars == <<vreq, vret, vOps>>

\* the contract state that only transactions sent to the contract change
sbtVars == <<tokenOwners, tokenApprovals, contractOwner, sbtTypes, lastTx, txCount>>

vars == <<mintVars, busVars, elig, verifVars, sbtVars>>

\* what the steps of each service leave alone
nonMintVars == <<busVars, elig, verifVars, sbtVars>>

nonBusVars == <<mintVars, elig, verifVars, sbtVars>>

nonEligVars == <<mintVars, busVars, verifVars, sbtVars>>

nonVerifVars == <<badgeTypes, mints, req, lastRet, published, hasMintedBadge,
                  nextTokenId, web3Configured, opCount, busVars, elig, sbtVars>>

nonSbtVars == <<badgeTypes, verifs, now, mints, req, lastRet, published,
                web3Configured, opCount, busVars, elig, verifVars>>

\* ------------------------------------------------- verification sessions
IsExpired(v) == IF v.expiresAt # NoExpiry THEN now > v.expiresAt ELSE FALSE

CanBeUsed(v) == v.status = "completed" /\ ~IsExpired(v)

\* ids of the rows the query of getActiveVerifications returns;
\* provider = "" stands for the optional argument left out
GetActiveVerifications(wallet, provider) ==
    {i \in 1..Len(verifs) :
        /\ verifs[i].wallet = ToLower(wallet)
        /\ verifs[i].status = "completed"
        /\ (verifs[i].expiresAt = NoExpiry \/ verifs[i].expiresAt > now)
        /\ (provider # "" => verifs[i].provider = provider)}

\* ------------------------------------------------------------ eligibility
KnownMethods == {"twitter_follow", "onchain_activity", "snapshot_votes",
                 "onchain_governance"}

\* one entry of checkPrimaryRequirements' result
PrimaryResult(wallet, provider) ==
    [provider |-> provider,
     verified |-> \E i \in GetActiveVerifications(wallet, provider) :
                      CanBeUsed(verifs[i])]

CheckPrimaryRequirements(wallet, primaryProviders) ==
    [i \in 1..Len(primaryProviders) |->
        PrimaryResult(wallet, primaryProviders[i])]

\* verifySecondaryRule inside the try/catch of checkSecondaryRequirements:
\* draw is the outcome of the mock check's Math.random(); an unknown method
\* and a mock that rejects its params both throw, and the catch turns the
\* throw into verified = false.
\* threw: the rule threw; hasRequirement: details.requirement is set;
\* hasAction: details.requiredAction is set.
SecondaryResult(rule, draw) ==
    LET threw == rule.method \notin KnownMethods \/ ~rule.paramsOk
    IN [method |-> rule.method,
        verified |-> IF threw THEN FALSE ELSE draw,
        required |-> rule.required # "false",
        threw |-> threw,
        hasRequirement |-> ~threw /\ rule.method # "twitter_follow",
        hasAction |-> ~threw /\ rule.method = "twitter_follow"]

CheckSecondaryRequirements(secondaryRules, draws) ==
    [i \in 1..Len(secondaryRules) |-> SecondaryResult(secondaryRules[i], draws[i])]

EvaluatePrimaryLogic(results, logic) ==
    IF Len(results) = 0 THEN TRUE
    ELSE IF logic = "AND"
         THEN \A i \in 1..Len(results) : results[i].verified
         ELSE \E i \in 1..Len(results) : results[i].verified

\* logic = "absent" (undefined) takes the parameter's default 'AND'
\* variant: every result takes part, required or not
EvaluateSecondaryLogic_AllEntries(results, logic) ==
    LET eff == IF logic = "absent" THEN "AND" ELSE logic
    IN IF Len(results) = 0 THEN TRUE
       ELSE IF eff = "AND"
            THEN \A i \in 1..Len(results) : results[i].verified
            ELSE \E i \in 1..Len(results) : results[i].verified

EvaluateSecondaryLogic(results, logic) ==
    LET requiredResults == SelectSeq(results, LAMBDA r : r.required # FALSE)
        eff == IF logic = "absent" THEN "AND" ELSE logic
    IN IF Len(results) = 0 THEN TRUE
       ELSE IF Len(requiredResults) = 0 THEN TRUE
       ELSE IF eff = "AND"
            THEN \A i \in 1..Len(requiredResults) : requiredResults[i].verified
            ELSE \E i \in 1..Len(requiredResults) : requiredResults[i].verified

\* The strings of reasons / missingRequirements, as [kind, names]: names are
\* the provider or method names the string contains.
Entry(kind, names) == [kind |-> kind, names |-> names]

\* variant: the string names the first provider only
ProviderNames_First(results) ==
    IF Len(results) = 0 THEN <<>> ELSE <<results[1].provider>>

ProviderNames(results) == [i \in 1..Len(results) |-> results[i].provider]

RECURSIVE SecondaryReasons(_, _, _)
SecondaryReasons(results, rules, i) ==
    IF i > Len(results) THEN <<>>
    ELSE LET r == results[i]
             isRequired == rules.secondary[i].required # "false"
             here == IF r.verified
                     THEN <<Entry("secondary_satisfied", <<r.method>>)>>
                     ELSE IF isRequired THEN <<>>
                     ELSE <<Entry("optional_not_satisfied", <<r.method>>)>>
         IN here \o SecondaryReasons(results, rules, i + 1)

RECURSIVE SecondaryMissing(_, _, _)
SecondaryMissing(results, rules, i) ==
    IF i > Len(results) THEN <<>>
    ELSE LET r == results[i]
             isRequired == rules.secondary[i].required # "false"
             here == IF ~r.verified /\ isRequired
                     THEN <<Entry("secondary_failed", <<r.method>>)>>
                          \o (IF r.hasAction
                              THEN <<Entry("required_action", <<r.method>>)>>
                              ELSE <<>>)
                     ELSE <<>>
         IN here \o SecondaryMissing(results, rules, i + 1)

BuildEligibilityDetails(primaryResults, secondaryResults, rules, primaryEligible) ==
    LET successfulPrimary == SelectSeq(primaryResults, LAMBDA r : r.verified)
        failedPrimary == SelectSeq(primaryResults, LAMBDA r : ~r.verified)
        pReasons ==
            IF rules.logic = "AND"
            THEN [i \in 1..Len(successfulPrimary) |->
                     Entry("identity_verified", <<successfulPrimary[i].provider>>)]
            ELSE IF Len(successfulPrimary) > 0
                 THEN <<Entry("identity_verified", ProviderNames(successfulPrimary))>>
                 ELSE <<>>
        pMissing ==
            IF rules.logic = "AND"
            THEN [i \in 1..Len(failedPrimary) |->
                     Entry("missing_provider", <<failedPrimary[i].provider>>)]
            ELSE IF Len(successfulPrimary) > 0
                 THEN <<>>
                 ELSE <<Entry("missing_one_of", ProviderNames(primaryResults))>>
        reasons == pReasons \o SecondaryReasons(secondaryResults, rules, 1)
        missing == pMissing \o SecondaryMissing(secondaryResults, rules, 1)
    IN [reasons |-> IF primaryEligible /\ Len(missing) = 0
                    THEN <<Entry("eligible_for", <<>>)>> \o reasons
                    ELSE reasons,
        missingRequirements |->
                    IF ~(primaryEligible /\ Len(missing) = 0) /\ ~primaryEligible
                    THEN <<Entry("identity_not_met", <<>>)>> \o missing
                    ELSE missing]

\* findOne({key, isActive: true}) on badge_types
\* variant: the lookup by key alone
ActiveBadgeType_AnyKey(key) == {b \in badgeTypes : b.key = key}

ActiveBadgeType(key) == {b \in badgeTypes : b.key = key /\ b.isActive}

EligibilityFailure(error) ==
    [error |-> error, primaryEligible |-> FALSE, eligible |-> FALSE,
     reasons |-> <<>>, missingRequirements |-> <<>>, primary |-> <<>>,
     secondary |-> <<>>]

\* checkEligibility(wallet, badgeKey); draws are the outcomes of the mock
\* attribute checks, one per secondary rule. error = "none" is a normal
\* return; primaryEligible is the method's local of that name.
CheckEligibility(wallet, badgeKey, draws) ==
    IF ActiveBadgeType(badgeKey) = {} THEN EligibilityFailure("NotFoundError")
    ELSE LET badgeType == CHOOSE b \in ActiveBadgeType(badgeKey) : TRUE
             rules == badgeType.rules
             primaryResults == CheckPrimaryRequirements(wallet, rules.primary)
             secondaryResults == CheckSecondaryRequirements(rules.secondary, draws)
             primaryEligible == EvaluatePrimaryLogic(primaryResults, rules.logic)
             secondaryEligible == EvaluateSecondaryLogic(secondaryResults, rules.logic)
             details == BuildEligibilityDetails(primaryResults, secondaryResults,
                                                rules, primaryEligible)
         IN [error |-> "none",
             primaryEligible |-> primaryEligible,
             eligible |-> primaryEligible /\ secondaryEligible,
             reasons |-> details.reasons,
             missingRequirements |-> details.missingRequirements,
             primary |-> primaryResults,
             secondary |-> secondaryResults]

\* the possible outcomes of the mock checks for a badge's secondary rules
Draws(badgeKey) ==
    IF ActiveBadgeType(badgeKey) = {} THEN {<<>>}
    ELSE LET b == CHOOSE t \in ActiveBadgeType(badgeKey) : TRUE
         IN [1..Len(b.rules.secondary) -> BOOLEAN]

\* ------------------------------------------------------------- event bus
\* One call of sendToWallet (scope "wallet", to = the wallet argument) or of
\* sendToChannel (scope "channel", to = the channel). ref is the mintId
\* argument when it is not a row id ('pending', 'eligibility_check').
Ev(scope, to, type, ref, mintId) ==
    [scope |-> scope, to |-> to, type |-> type, ref |-> ref, mintId |-> mintId]

SendMintingStarted(wallet, ref, mintId) ==
    <<Ev("wallet", wallet, "minting_started", ref, mintId),
      Ev("channel", "minting", "minting_started", ref, mintId),
      Ev("channel", "wallet_events", "minting_started", ref, mintId)>>

SendTransactionStarting(wallet, mintId) ==
    <<Ev("wallet", wallet, "blockchain_transaction_starting", "id", mintId),
      Ev("channel", "transactions", "blockchain_transaction_starting", "id", mintId)>>

SendTransactionSubmitted(wallet, mintId) ==
    <<Ev("wallet", wallet, "blockchain_transaction_submitted", "id", mintId),
      Ev("channel", "transactions", "blockchain_transaction_submitted", "id", mintId)>>

SendMintingCompleted(wallet, mintId) ==
    <<Ev("wallet", wallet, "minting_completed", "id", mintId),
      Ev("channel", "minting", "minting_success", "id", mintId),
      Ev("channel", "transactions", "transaction_confirmed", "id", mintId)>>

SendMintingFailed(wallet, ref, mintId) ==
    <<Ev("wallet", wallet, "minting_failed", ref, mintId),
      Ev("channel", "minting", "minting_failed", ref, mintId)>>

SendBadgeRevoked(wallet, mintId) ==
    <<Ev("wallet", wallet, "badge_revoked", "id", mintId),
      Ev("channel", "admin", "badge_revoked", "id", mintId),
      Ev("channel", "minting", "badge_revoked", "id", mintId)>>

SendMintStatusUpdate(wallet, mintId) ==
    <<Ev("wallet", wallet, "mint_status_update", "id", mintId),
      Ev("channel", "minting", "mint_status_update", "id", mintId)>>

\* the verification events; the session is named by its row id. No statement
\* of the program calls these methods.
SendVerificationCompleted(wallet, id) ==
    <<Ev("wallet", wallet, "verification_completed", "id", id),
      Ev("channel", "verification", "verification_success", "id", id)>>

SendVerificationFailed(wallet, id) ==
    <<Ev("wallet", wallet, "verification_failed", "id", id),
      Ev("channel", "verification", "verification_failed", "id", id)>>

RECURSIVE Publish(_, _)
Publish(bag, events) ==
    IF events = <<>> THEN bag
    ELSE Publish(bag (+) SetToBag({Head(events)}), Tail(events))

PubCount(e) == CopiesIn(e, published)

\* ---------------------------------------------------------------- minting
NoEnt == [wallet |-> "", badgeKey |-> "", status |-> "none", tokenId |-> 0,
          transactionHash |-> "", isRevoked |-> FALSE, metaRevoked |-> FALSE,
          metaError |-> ""]

NoRet == [op |-> "none", threw |-> FALSE, ok |-> FALSE, reason |-> "",
          mintId |-> 0]

IdleReq == [op |-> "none", pc |-> "idle", wallet |-> "", key |-> "",
            mintId |-> 0, ent |-> NoEnt]

\* a return value (threw = FALSE: ok is canMint / success, reason the reason or
\* error string) or a thrown error (threw = TRUE: reason is its class)
Ret(op, threw, ok, reason, mintId) ==
    [op |-> op, threw |-> threw, ok |-> ok, reason |-> reason, mintId |-> mintId]

\* the operation of slot p ends and hands ret to its caller
Done(p, ret) ==
    /\ req' = [req EXCEPT ![p] = IdleReq]
    /\ lastRet' = ret

\* a request takes the first free slot (the slots are interchangeable)
FreeSlot(p) ==
    /\ req[p].pc = "idle"
    /\ \A q \in 1..(p - 1) : req[q].pc # "idle"

\* the rows canMintBadge's findOne may return: wallet lower-cased, same badge
\* key, isRevoked = false
\* variant: the stored wallet is compared with the argument as given
ExistingMint_AsGiven(wallet, badgeTypeKey) ==
    {i \in 1..Len(mints) :
        /\ mints[i].wallet = wallet
        /\ mints[i].badgeKey = badgeTypeKey
        /\ ~mints[i].isRevoked}

ExistingMint(wallet, badgeTypeKey) ==
    {i \in 1..Len(mints) :
        /\ mints[i].wallet = ToLower(wallet)
        /\ mints[i].badgeKey = badgeTypeKey
        /\ ~mints[i].isRevoked}

\* the row initiateMint inserts: isRevoked takes the column default
NewMint(wallet, badgeTypeKey) ==
    [wallet |-> ToLower(wallet), badgeKey |-> badgeTypeKey, status |-> "pending",
     tokenId |-> 0, transactionHash |-> "", isRevoked |-> FALSE,
     metaRevoked |-> FALSE, metaError |-> ""]

\* an EVM address does not depend on the case of its hex digits
Addr(wallet) == ToLower(wallet)

\* mockMintBadge's token id, a hash of the characters of `to`
MockTokenId(to) == IF to = "0xAA" THEN 7001 ELSE IF to = "0xaa" THEN 7002 ELSE 7003

InFlight(op) == {q \in Procs : req[q].op = op}

\* canMintBadge is called
CanMintStart(p, wallet, key) ==
    /\ FreeSlot(p)
    /\ opCount < MaxOps
    /\ req' = [req EXCEPT ![p] = [IdleReq EXCEPT !.op = "canMintBadge",
                    !.pc = "cm_existing", !.wallet = wallet, !.key = key]]
    /\ opCount' = opCount + 1
    /\ UNCHANGED nonMintVars
    /\ UNCHANGED <<badgeTypes, verifs, now, mints, lastRet, published,
                   hasMintedBadge, nextTokenId, web3Configured>>

\* initiateMint is called: minting_started with mintId 'pending', then
\* canMintBadge
InitiateMintStart(p, wallet, key) ==
    /\ FreeSlot(p)
    /\ opCount < MaxOps
    /\ Len(mints) + Cardinality(InFlight("initiateMint")) < MaxMints
    /\ req' = [req EXCEPT ![p] = [IdleReq EXCEPT !.op = "initiateMint",
                    !.pc = "cm_existing", !.wallet = wallet, !.key = key]]
    /\ published' = Publish(published, SendMintingStarted(wallet, "pending", 0))
    /\ opCount' = opCount + 1
    /\ UNCHANGED nonMintVars
    /\ UNCHANGED <<badgeTypes, verifs, now, mints, lastRet, hasMintedBadge,
                   nextTokenId, web3Configured>>

\* canMintBadge returns {canMint, reason, existingMint}: to its caller, or
\* into initiateMint, which on rejection publishes minting_failed and returns
\* variant: initiateMint goes on to create the row whatever canMintBadge says
CanMintReturn_Unchecked(p, ok, reason, existing) ==
    IF req[p].op = "canMintBadge"
    THEN /\ Done(p, Ret("canMintBadge", FALSE, ok, reason, existing))
         /\ UNCHANGED published
    ELSE /\ req' = [req EXCEPT ![p].pc = "im_create"]
         /\ UNCHANGED <<published, lastRet>>

CanMintReturn(p, ok, reason, existing) ==
    IF req[p].op = "canMintBadge"
    THEN /\ Done(p, Ret("canMintBadge", FALSE, ok, reason, existing))
         /\ UNCHANGED published
    ELSE IF ok
         THEN /\ req' = [req EXCEPT ![p].pc = "im_create"]
              /\ UNCHANGED <<published, lastRet>>
         ELSE /\ Done(p, Ret("initiateMint", FALSE, FALSE, reason, 0))
              /\ published' = Publish(published,
                     SendMintingFailed(req[p].wallet, "eligibility_check", 0))

\* canMintBadge: the badge type lookup and the existing-mint lookup
\* variant: the existing-mint lookup leaves out the isRevoked condition
CM_FindExisting_AnyRecord(p) ==
    /\ req[p].pc = "cm_existing"
    /\ LET rows == {i \in 1..Len(mints) :
                       /\ mints[i].wallet = ToLower(req[p].wallet)
                       /\ mints[i].badgeKey = req[p].key}
       IN IF ActiveBadgeType(req[p].key) = {}
          THEN CanMintReturn(p, FALSE, "not_found_or_inactive", 0)
          ELSE IF rows # {}
               THEN \E i \in rows : CanMintReturn(p, FALSE, "already_have", i)
               ELSE /\ req' = [req EXCEPT ![p].pc = "cm_elig"]
                    /\ UNCHANGED <<published, lastRet>>
    /\ UNCHANGED nonMintVars
    /\ UNCHANGED <<badgeTypes, verifs, now, mints, hasMintedBadge, nextTokenId,
                   web3Configured, opCount>>

CM_FindExisting(p) ==
    /\ req[p].pc = "cm_existing"
    /\ IF ActiveBadgeType(req[p].key) = {}
       THEN CanMintReturn(p, FALSE, "not_found_or_inactive", 0)
       ELSE IF ExistingMint(req[p].wallet, req[p].key) # {}
            THEN \E i \in ExistingMint(req[p].wallet, req[p].key) :
                     CanMintReturn(p, FALSE, "already_have", i)
            ELSE /\ req' = [req EXCEPT ![p].pc = "cm_elig"]
                 /\ UNCHANGED <<published, lastRet>>
    /\ UNCHANGED nonMintVars
    /\ UNCHANGED <<badgeTypes, verifs, now, mints, hasMintedBadge, nextTokenId,
                   web3Configured, opCount>>

\* canMintBadge: the eligibility check; an error it throws is caught
CM_Eligibility(p) ==
    /\ req[p].pc = "cm_elig"
    /\ \E draws \in Draws(req[p].key) :
         LET e == CheckEligibility(req[p].wallet, req[p].key, draws)
         IN IF e.error # "none"
            THEN CanMintReturn(p, FALSE, "error_checking", 0)
            ELSE IF ~e.eligible
                 THEN CanMintReturn(p, FALSE, "not_eligible", 0)
                 ELSE CanMintReturn(p, TRUE, "eligible", 0)
    /\ UNCHANGED nonMintVars
    /\ UNCHANGED <<badgeTypes, verifs, now, mints, hasMintedBadge, nextTokenId,
                   web3Configured, opCount>>

\* initiateMint: the row is inserted; minting_started with its id and
\* blockchain_transaction_starting are published; the ledger call is made
\* variant: the sessions of the wallet are spent by the mint
IM_Create_SingleUse(p) ==
    /\ req[p].pc = "im_create"
    /\ LET id == Len(mints) + 1
           row == NewMint(req[p].wallet, req[p].key)
       IN /\ mints' = Append(mints, row)
          /\ req' = [req EXCEPT ![p].pc = "im_ledger", ![p].mintId = id,
                                ![p].ent = row]
          /\ published' = Publish(published,
                 SendMintingStarted(req[p].wallet, "id", id)
                 \o SendTransactionStarting(req[p].wallet, id))
    /\ verifs' = [i \in 1..Len(verifs) |->
                    IF verifs[i].wallet = ToLower(req[p].wallet)
                    THEN [verifs[i] EXCEPT !.status = "expired"]
                    ELSE verifs[i]]
    /\ UNCHANGED nonMintVars
    /\ UNCHANGED <<badgeTypes, now, lastRet, hasMintedBadge, nextTokenId,
                   web3Configured, opCount>>

IM_Create(p) ==
    /\ req[p].pc = "im_create"
    /\ LET id == Len(mints) + 1
           row == NewMint(req[p].wallet, req[p].key)
       IN /\ mints' = Append(mints, row)
          /\ req' = [req EXCEPT ![p].pc = "im_ledger", ![p].mintId = id,
                                ![p].ent = row]
          /\ published' = Publish(published,
                 SendMintingStarted(req[p].wallet, "id", id)
                 \o SendTransactionStarting(req[p].wallet, id))
    /\ UNCHANGED nonMintVars
    /\ UNCHANGED <<badgeTypes, verifs, now, lastRet, hasMintedBadge, nextTokenId,
                   web3Configured, opCount>>

\* web3Service.mintBadge returns: in mock mode always; on the contract only
\* when the wallet does not hold the badge type yet. The entity takes the
\* result and is handed to save.
IM_LedgerOk(p) ==
    /\ req[p].pc = "im_ledger"
    /\ LET pair == <<Addr(req[p].wallet), req[p].key>>
           tokenId == IF web3Configured THEN nextTokenId
                      ELSE MockTokenId(req[p].wallet)
       IN /\ web3Configured => pair \notin hasMintedBadge
          /\ hasMintedBadge' = IF web3Configured THEN hasMintedBadge \cup {pair}
                               ELSE hasMintedBadge
          /\ nextTokenId' = IF web3Configured THEN nextTokenId + 1 ELSE nextTokenId
          /\ req' = [req EXCEPT ![p].pc = "im_save_ok",
                        ![p].ent = [req[p].ent EXCEPT !.tokenId = tokenId,
                                       !.transactionHash = "0xtx",
                                       !.status = "completed"]]
          /\ published' = Publish(published,
                 SendTransactionSubmitted(req[p].wallet, req[p].mintId))
    /\ UNCHANGED nonMintVars
    /\ UNCHANGED <<badgeTypes, verifs, now, mints, lastRet, web3Configured,
                   opCount>>

\* the message of the error web3Service.mintBadge throws
LedgerError == "execution reverted"

\* web3Service.mintBadge throws (the contract reverts, the network fails):
\* the entity takes status 'failed' and the message and is handed to save
\* variant: the catch block leaves the metadata of the entity as it was
IM_LedgerFail_Unrecorded(p) ==
    /\ req[p].pc = "im_ledger"
    /\ web3Configured
    /\ req' = [req EXCEPT ![p].pc = "im_save_fail"]
    /\ UNCHANGED nonMintVars
    /\ UNCHANGED <<badgeTypes, verifs, now, mints, lastRet, published,
                   hasMintedBadge, nextTokenId, web3Configured, opCount>>

IM_LedgerFail(p) ==
    /\ req[p].pc = "im_ledger"
    /\ web3Configured
    /\ req' = [req EXCEPT ![p].pc = "im_save_fail",
                  ![p].ent = [req[p].ent EXCEPT !.status = "failed",
                                                !.metaError = LedgerError]]
    /\ UNCHANGED nonMintVars
    /\ UNCHANGED <<badgeTypes, verifs, now, mints, lastRet, published,
                   hasMintedBadge, nextTokenId, web3Configured, opCount>>

\* repository.save(entity) on a stored row
Save(id, ent) == [mints EXCEPT ![id] = ent]

\* initiateMint: the success write, minting_completed, return
IM_SaveOk(p) ==
    /\ req[p].pc = "im_save_ok"
    /\ mints' = Save(req[p].mintId, req[p].ent)
    /\ published' = Publish(published,
           SendMintingCompleted(req[p].wallet, req[p].mintId))
    /\ Done(p, Ret("initiateMint", FALSE, TRUE, "", req[p].mintId))
    /\ UNCHANGED nonMintVars
    /\ UNCHANGED <<badgeTypes, verifs, now, hasMintedBadge, nextTokenId,
                   web3Configured, opCount>>

\* initiateMint: the failure write and minting_failed; the MintingError it
\* throws reaches the outer catch, which publishes minting_failed again and
\* rethrows
IM_SaveFail(p) ==
    /\ req[p].pc = "im_save_fail"
    /\ mints' = Save(req[p].mintId, req[p].ent)
    /\ published' = Publish(published,
           SendMintingFailed(req[p].wallet, "id", req[p].mintId)
           \o SendMintingFailed(req[p].wallet, "id", req[p].mintId))
    /\ Done(p, Ret("initiateMint", TRUE, FALSE, "MintingError", req[p].mintId))
    /\ UNCHANGED nonMintVars
    /\ UNCHANGED <<badgeTypes, verifs, now, hasMintedBadge, nextTokenId,
                   web3Configured, opCount>>

\* revokeBadge is called and loads the row: it throws when there is none or
\* when the row is revoked; otherwise mint_status_update is published and the
\* loaded entity, with isRevoked set, is handed to save
\* variant: a row that is already revoked is accepted like any other
RevokeStart_Unchecked(p, mintId) ==
    /\ FreeSlot(p)
    /\ opCount < MaxOps
    /\ opCount' = opCount + 1
    /\ IF mintId \notin 1..Len(mints)
       THEN /\ Done(p, Ret("revokeBadge", TRUE, FALSE, "NotFoundError", mintId))
            /\ UNCHANGED published
       ELSE /\ req' = [req EXCEPT ![p] = [IdleReq EXCEPT
                           !.op = "revokeBadge", !.pc = "rb_save",
                           !.mintId = mintId,
                           !.ent = [mints[mintId] EXCEPT !.isRevoked = TRUE,
                                                        !.metaRevoked = TRUE]]]
            /\ lastRet' = lastRet
            /\ published' = Publish(published,
                   SendMintStatusUpdate(mints[mintId].wallet, mintId))
    /\ UNCHANGED nonMintVars
    /\ UNCHANGED <<badgeTypes, verifs, now, mints, hasMintedBadge, nextTokenId,
                   web3Configured>>

RevokeStart(p, mintId) ==
    /\ FreeSlot(p)
    /\ opCount < MaxOps
    /\ opCount' = opCount + 1
    /\ IF mintId \notin 1..Len(mints)
       THEN /\ Done(p, Ret("revokeBadge", TRUE, FALSE, "NotFoundError", mintId))
            /\ UNCHANGED published
       ELSE IF mints[mintId].isRevoked
            THEN /\ Done(p, Ret("revokeBadge", TRUE, FALSE, "ValidationError", mintId))
                 /\ UNCHANGED published
            ELSE /\ req' = [req EXCEPT ![p] = [IdleReq EXCEPT
                                !.op = "revokeBadge", !.pc = "rb_save",
                                !.mintId = mintId,
                                !.ent = [mints[mintId] EXCEPT !.isRevoked = TRUE,
                                                             !.metaRevoked = TRUE]]]
                 /\ lastRet' = lastRet
                 /\ published' = Publish(published,
                        SendMintStatusUpdate(mints[mintId].wallet, mintId))
    /\ UNCHANGED nonMintVars
    /\ UNCHANGED <<badgeTypes, verifs, now, mints, hasMintedBadge, nextTokenId,
                   web3Configured>>

\* revokeBadge: the write, badge_revoked, return
RB_Save(p) ==
    /\ req[p].pc = "rb_save"
    /\ mints' = Save(req[p].mintId, req[p].ent)
    /\ published' = Publish(published,
           SendBadgeRevoked(req[p].ent.wallet, req[p].mintId))
    /\ Done(p, Ret("revokeBadge", FALSE, TRUE, "", req[p].mintId))
    /\ UNCHANGED nonMintVars
    /\ UNCHANGED <<badgeTypes, verifs, now, hasMintedBadge, nextTokenId,
                   web3Configured, opCount>>

\* the badge types and sessions of the minting scenarios: dao-voter accepts a
\* polygonid or an idos session, and wallet 0xaa holds a completed idos one
DaoVoterRules == [primary |-> <<"polygonid", "idos">>, secondary |-> <<>>,
                  logic |-> "OR"]

MintBadgeTypes ==
    {[key |-> "dao-voter", isActive |-> TRUE, rules |-> DaoVoterRules],
     [key |-> "retired", isActive |-> FALSE, rules |-> DaoVoterRules]}

BadgeKeyInputs == {"dao-voter", "retired"}

Session(wallet, provider, status, expiresAt) ==
    [wallet |-> wallet, provider |-> provider, type |-> "primary_did",
     status |-> status, sessionId |-> provider, expiresAt |-> expiresAt]

\* ------------------------------------------ the BadgeSBT ledger contract
ZeroAddress == "0x0"

\* the account that deployed the contract: Ownable(msg.sender)
Deployer == "0xdeployer"

\* the accounts that send transactions
Accounts == {Deployer, "0xaa", "0xbb"}

TokenIds == 1..MaxTokens

MaxSupplyInputs == {0, 2}

\* a badge type id that was never created: the mapping's default value
NoType == [isActive |-> FALSE, maxSupply |-> 0, mintedCount |-> 0]

Tx(fn, sender, to, tokenId, reverted) ==
    [fn |-> fn, sender |-> sender, to |-> to, tokenId |-> tokenId,
     reverted |-> reverted]

NoTx == Tx("", ZeroAddress, ZeroAddress, 0, FALSE)

\* the contract as its constructor leaves it
InitLedger ==
    /\ tokenOwners = [t \in TokenIds |-> ZeroAddress]
    /\ tokenApprovals = [t \in TokenIds |-> ZeroAddress]
    /\ contractOwner = Deployer
    /\ sbtTypes = [k \in BadgeKeyInputs |-> NoType]
    /\ lastTx = NoTx
    /\ txCount = 0

\* no mint was ever requested
InitNoMints ==
    /\ mints = <<>>
    /\ req = [p \in Procs |-> IdleReq]
    /\ lastRet = NoRet
    /\ published = EmptyBag
    /\ hasMintedBadge = {}
    /\ nextTokenId = 1
    /\ opCount = 0
    /\ InitLedger

InitMint ==
    /\ badgeTypes = MintBadgeTypes
    /\ verifs = <<Session("0xaa", "idos", "completed", 2)>>
    /\ now = 0
    /\ InitNoMints
    /\ web3Configured \in BOOLEAN

\* ------------------------------------- verification requests in flight
IdleVReq == [op |-> "", pc |-> "idle", id |-> 0, wallet |-> "", provider |-> ""]
NoVRet == [op |-> "", threw |-> FALSE, error |-> "", id |-> 0]

InitNoVerifRequests ==
    /\ vreq = [p \in Procs |-> IdleVReq]
    /\ vret = NoVRet
    /\ vOps = 0

\* ------------------------------------------------ event bus connections
ClientIds == 1..MaxClients
Channels == {"minting", "admin"}

\* the wallet query parameter of a connection request; "" when it has none
ConnectWallets == {"", "0xaa"}

NoClient == [isAlive |-> FALSE, subscriptions |-> {}, user |-> ""]
NoSocket == [readyState |-> "NONE", wallet |-> ""]
NoCall == [op |-> "", target |-> ""]
NoReply == [to |-> 0, type |-> "", channels |-> {}, subscribed |-> {}, error |-> ""]

InitBus ==
    /\ registry = {}
    /\ clients = [c \in ClientIds |-> NoClient]
    /\ sockets = [c \in ClientIds |-> NoSocket]
    /\ lastCall = NoCall
    /\ delivered = {}
    /\ lastReply = NoReply
    /\ busOps = 0

NoEval == [wallet |-> "", badgeKey |-> "", draws |-> <<>>,
           result |-> EligibilityFailure("")]

Init == InitMint /\ InitBus /\ elig = NoEval /\ InitNoVerifRequests

AllIdle == \A p \in Procs : req[p].pc = "idle"

Next ==
    \/ \E p \in Procs, w \in WalletInputs, k \in BadgeKeyInputs :
           CanMintStart(p, w, k)
    \/ \E p \in Procs, w \in WalletInputs, k \in BadgeKeyInputs :
           InitiateMintStart(p, w, k)
    \/ \E p \in Procs, id \in 1..(MaxMints + 1) : RevokeStart(p, id)
    \/ \E p \in Procs : CM_FindExisting(p)
    \/ \E p \in Procs : CM_Eligibility(p)
    \/ \E p \in Procs : IM_Create(p)
    \/ \E p \in Procs : IM_LedgerOk(p)
    \/ \E p \in Procs : IM_LedgerFail(p)
    \/ \E p \in Procs : IM_SaveOk(p)
    \/ \E p \in Procs : IM_SaveFail(p)
    \/ \E p \in Procs : RB_Save(p)

\* the minting operations, overlapping as the requests arrive
Spec == Init /\ [][Next]_vars

\* the minting operations, each run to completion before the next starts
NextSeq ==
    \/ AllIdle /\ \E p \in Procs, w \in WalletInputs, k \in BadgeKeyInputs :
           CanMintStart(p, w, k)
    \/ AllIdle /\ \E p \in Procs, w \in WalletInputs, k \in BadgeKeyInputs :
           InitiateMintStart(p, w, k)
    \/ AllIdle /\ \E p \in Procs, id \in 1..(MaxMints + 1) : RevokeStart(p, id)
    \/ \E p \in Procs : CM_FindExisting(p)
    \/ \E p \in Procs : CM_Eligibility(p)
    \/ \E p \in Procs : IM_Create(p)
    \/ \E p \in Procs : IM_LedgerOk(p)
    \/ \E p \in Procs : IM_LedgerFail(p)
    \/ \E p \in Procs : IM_SaveOk(p)
    \/ \E p \in Procs : IM_SaveFail(p)
    \/ \E p \in Procs : RB_Save(p)

SpecSeq == Init /\ [][NextSeq]_vars

\* ------------------------------------------ minting: a save that throws
\* initiateMint: repository.save of the result rejects (the store is down).
\* After the ledger returned, the error reaches the outer catch; after the
\* ledger threw, the save of the inner catch rejects before its
\* sendMintingFailed and the error reaches the outer catch as well. The
\* outer catch publishes minting_failed and returns success = false: it
\* writes nothing to the row.
IM_SaveThrows(p) ==
    /\ req[p].pc \in {"im_save_ok", "im_save_fail"}
    /\ published' = Publish(published,
           SendMintingFailed(req[p].wallet, "id", req[p].mintId))
    /\ Done(p, Ret("initiateMint", FALSE, FALSE, "Failed to initiate mint",
                   req[p].mintId))
    /\ UNCHANGED nonMintVars
    /\ UNCHANGED <<badgeTypes, verifs, now, mints, hasMintedBadge, nextTokenId,
                   web3Configured, opCount>>

\* the sequential minting operations over a store whose writes may fail
NextSeqFaults ==
    \/ NextSeq
    \/ \E p \in Procs : IM_SaveThrows(p)

\* the steps the runtime takes by itself once a request is in flight: the
\* store and the ledger answer and the handler runs on to its return
MintProgress ==
    \E p \in Procs :
        \/ CM_FindExisting(p)
        \/ CM_Eligibility(p)
        \/ IM_Create(p)
        \/ IM_LedgerOk(p)
        \/ IM_LedgerFail(p)
        \/ IM_SaveOk(p)
        \/ IM_SaveFail(p)
        \/ IM_SaveThrows(p)
        \/ RB_Save(p)

\* every call in flight gets its answer: the ledger call returns or throws,
\* the store returns or throws
SpecSeqFaults ==
    /\ Init
    /\ [][NextSeqFaults]_vars
    /\ WF_vars(MintProgress)

\* ---------------------------------------------- event bus: the handlers
IsOpen(c) == sockets[c].readyState = "OPEN"

\* sendToClient writes to the socket of a registered id whose socket is open
SendToClient(clientId) == clientId \in registry /\ IsOpen(clientId)

\* the answer the server writes to connection c, if sendToClient writes it
Reply(c, type, channels, subscribed, error) ==
    IF SendToClient(c)
    THEN [to |-> c, type |-> type, channels |-> channels,
          subscribed |-> subscribed, error |-> error]
    ELSE NoReply

\* authenticateClient: client.user is set only for a non-empty parameter
AuthenticateClient(wallet) == IF wallet # "" THEN wallet ELSE ""

\* a step that changes the registry, a client object or a socket
BusStep == /\ busOps < MaxBusOps
           /\ busOps' = busOps + 1

\* the step makes no public call, writes no answer
NoCallMade == lastCall' = NoCall /\ delivered' = {}

NoAnswer == lastReply' = NoReply

\* wss.on('connection'): ids are fresh, taken here in increasing order
Connect(c, wallet) ==
    /\ BusStep
    /\ sockets[c].readyState = "NONE"
    /\ \A d \in ClientIds : d < c => sockets[d].readyState # "NONE"
    /\ sockets' = [sockets EXCEPT ![c] = [readyState |-> "OPEN", wallet |-> wallet]]
    /\ registry' = registry \cup {c}
    /\ clients' = [clients EXCEPT ![c] = [isAlive |-> TRUE, subscriptions |-> {},
                                          user |-> AuthenticateClient(wallet)]]
    /\ lastReply' = [to |-> c, type |-> "connection_established", channels |-> {},
                     subscribed |-> {}, error |-> ""]
    /\ NoCallMade
    /\ UNCHANGED nonBusVars

\* a message of a connection: its type, payload.channels (when it is an
\* array), message.channel and payload.channel ("" when absent)
Message(type, hasChannels, channels, channel, payloadChannel) ==
    [type |-> type, hasChannels |-> hasChannels, channels |-> channels,
     channel |-> channel, payloadChannel |-> payloadChannel]

ClientMessages ==
    {Message("subscribe", TRUE, {"minting"}, "", ""),
     Message("subscribe", TRUE, {"minting", "admin"}, "", ""),
     Message("subscribe", TRUE, {}, "admin", ""),
     Message("subscribe", FALSE, {}, "admin", "minting"),
     Message("subscribe", FALSE, {}, "", "minting"),
     Message("subscribe", FALSE, {}, "", ""),
     Message("unsubscribe", TRUE, {"minting"}, "", ""),
     Message("unsubscribe", TRUE, {}, "", ""),
     Message("unsubscribe", FALSE, {}, "", ""),
     Message("ping", FALSE, {}, "", ""),
     Message("", FALSE, {}, "", ""),
     Message("other", FALSE, {}, "", "")}

\* the channels a subscribe message names; "none" when it names none
SubscriptionChannels(message) ==
    IF message.hasChannels THEN [found |-> TRUE, channels |-> message.channels]
    ELSE IF message.channel # "" THEN [found |-> TRUE, channels |-> {message.channel}]
    ELSE IF message.payloadChannel # ""
         THEN [found |-> TRUE, channels |-> {message.payloadChannel}]
    ELSE [found |-> FALSE, channels |-> {}]

HandleSubscription(c, message) ==
    LET sub == SubscriptionChannels(message)
        subscriptions == clients[c].subscriptions \cup sub.channels
    IN IF ~sub.found
       THEN /\ lastReply' = Reply(c, "error", {}, {},
                                  "Subscription requires channels array or channel field")
            /\ UNCHANGED clients
       ELSE /\ clients' = [clients EXCEPT ![c].subscriptions = subscriptions]
            /\ lastReply' = Reply(c, "subscription_confirmed", subscriptions,
                                  sub.channels, "")

\* variant: every unsubscribe message empties the set
HandleUnsubscription_All(c, message) ==
    /\ clients' = [clients EXCEPT ![c].subscriptions = {}]
    /\ lastReply' = Reply(c, "unsubscription_confirmed", {}, {}, "")

HandleUnsubscription(c, message) ==
    LET subscriptions == IF message.hasChannels
                         THEN clients[c].subscriptions \ message.channels
                         ELSE {}
    IN /\ clients' = [clients EXCEPT ![c].subscriptions = subscriptions]
       /\ lastReply' = Reply(c, "unsubscription_confirmed", subscriptions, {}, "")

\* socket.on('message') of a registered connection whose socket is open
HandleMessage(c, message) ==
    /\ IF message.type \in {"subscribe", "unsubscribe"} THEN BusStep
       ELSE UNCHANGED busOps
    /\ c \in registry
    /\ IsOpen(c)
    /\ IF message.type = ""
       THEN /\ lastReply' = Reply(c, "error", {}, {}, "Invalid message: missing type")
            /\ UNCHANGED clients
       ELSE IF message.type = "subscribe" THEN HandleSubscription(c, message)
       ELSE IF message.type = "unsubscribe" THEN HandleUnsubscription(c, message)
       ELSE IF message.type = "ping"
       THEN /\ lastReply' = Reply(c, "pong", {}, {}, "")
            /\ UNCHANGED clients
       ELSE /\ lastReply' = Reply(c, "error", {}, {}, "Unknown message type")
            /\ UNCHANGED clients
    /\ NoCallMade
    /\ UNCHANGED <<registry, sockets>>
    /\ UNCHANGED nonBusVars

\* handleDisconnect: the id leaves the map and its object is dropped
HandleDisconnect(ids) ==
    /\ registry' = registry \ ids
    /\ clients' = [c \in ClientIds |-> IF c \in ids THEN NoClient ELSE clients[c]]

\* the peer or the network closes a socket; its 'close' event comes later
SocketClose(c) ==
    /\ BusStep
    /\ IsOpen(c)
    /\ sockets' = [sockets EXCEPT ![c].readyState = "CLOSED"]
    /\ NoCallMade /\ NoAnswer
    /\ UNCHANGED <<registry, clients>>
    /\ UNCHANGED nonBusVars

\* socket.on('close')
OnClose(c) ==
    /\ BusStep
    /\ c \in registry
    /\ sockets[c].readyState = "CLOSED"
    /\ HandleDisconnect({c})
    /\ NoCallMade /\ NoAnswer
    /\ UNCHANGED sockets
    /\ UNCHANGED nonBusVars

\* socket.on('error'): the socket itself is left as it is
OnError(c) ==
    /\ BusStep
    /\ c \in registry
    /\ HandleDisconnect({c})
    /\ NoCallMade /\ NoAnswer
    /\ UNCHANGED sockets
    /\ UNCHANGED nonBusVars

\* socket.on('pong'): the answer to the ping of the last heartbeat
OnPong(c) ==
    /\ BusStep
    /\ c \in registry
    /\ IsOpen(c)
    /\ ~clients[c].isAlive
    /\ clients' = [clients EXCEPT ![c].isAlive = TRUE]
    /\ NoCallMade /\ NoAnswer
    /\ UNCHANGED <<registry, sockets>>
    /\ UNCHANGED nonBusVars

\* variant: the heartbeat probes every connection and terminates none
Heartbeat_ProbeOnly ==
    /\ BusStep
    /\ registry # {}
    /\ clients' = [c \in ClientIds |->
                     IF c \in registry THEN [clients[c] EXCEPT !.isAlive = FALSE]
                     ELSE clients[c]]
    /\ NoCallMade /\ NoAnswer
    /\ UNCHANGED <<registry, sockets>>
    /\ UNCHANGED nonBusVars

\* one tick of the heartbeat interval
Heartbeat ==
    LET dead == {c \in registry : ~clients[c].isAlive}
    IN /\ BusStep
       /\ registry # {}
       /\ sockets' = [c \in ClientIds |->
                        IF c \in dead THEN [sockets[c] EXCEPT !.readyState = "CLOSED"]
                        ELSE sockets[c]]
       /\ registry' = registry \ dead
       /\ clients' = [c \in ClientIds |->
                        IF c \in dead THEN NoClient
                        ELSE IF c \in registry THEN [clients[c] EXCEPT !.isAlive = FALSE]
                        ELSE clients[c]]
       /\ NoCallMade /\ NoAnswer
       /\ UNCHANGED nonBusVars

\* ------------------------------------------ event bus: the public calls
\* variant: every open connection, whatever its subscription set
ChannelRecipients_AllOpen(channel) ==
    {c \in registry : IsOpen(c) /\ SendToClient(c)}

\* the connections sendToChannel writes to
ChannelRecipients(channel) ==
    {c \in registry :
        channel \in clients[c].subscriptions /\ IsOpen(c) /\ SendToClient(c)}

\* variant: every open connection that has a user, whatever its wallet
WalletRecipients_AnyUser(wallet) ==
    {c \in registry : clients[c].user # "" /\ IsOpen(c) /\ SendToClient(c)}

\* the connections sendToWallet writes to; user = "" is a client without user
WalletRecipients(wallet) ==
    {c \in registry :
        clients[c].user = wallet /\ IsOpen(c) /\ SendToClient(c)}

\* the connections broadcast writes to; channel = "" is the argument left out
BroadcastRecipients(channel) ==
    {c \in registry :
        (channel = "" \/ channel \in clients[c].subscriptions) /\ SendToClient(c)}

Call(op, target, recipients) ==
    /\ UNCHANGED busOps
    /\ lastCall' = [op |-> op, target |-> target]
    /\ delivered' = recipients
    /\ NoAnswer
    /\ UNCHANGED <<registry, clients, sockets>>
    /\ UNCHANGED nonBusVars

SendToChannel(channel) == Call("sendToChannel", channel, ChannelRecipients(channel))

SendToWallet(wallet) == Call("sendToWallet", wallet, WalletRecipients(wallet))

Broadcast(channel) == Call("broadcast", channel, BroadcastRecipients(channel))

NextBus ==
    \/ \E c \in ClientIds, w \in ConnectWallets : Connect(c, w)
    \/ \E c \in ClientIds, m \in ClientMessages : HandleMessage(c, m)
    \/ \E c \in ClientIds : SocketClose(c)
    \/ \E c \in ClientIds : OnClose(c)
    \/ \E c \in ClientIds : OnError(c)
    \/ \E c \in ClientIds : OnPong(c)
    \/ Heartbeat
    \/ \E ch \in Channels : SendToChannel(ch)
    \/ \E w \in WalletInputs : SendToWallet(w)
    \/ \E ch \in Channels \cup {""} : Broadcast(ch)

\* the ledger mode is of no account to the event bus
InitMock == Init /\ ~web3Configured

\* the event bus alone: connections come and go while messages are sent
SpecBus == InitMock /\ [][NextBus]_vars

\* ---------------------------------- the BadgeSBT contract: transactions
\* a transaction is mined: tx tells what was called and how it ended
Sent(tx) ==
    /\ txCount < MaxTxs
    /\ txCount' = txCount + 1
    /\ lastTx' = tx
    /\ UNCHANGED nonSbtVars

\* a transaction that reverts leaves the storage of the contract as it was
Reverted(fn, sender, to, tokenId) ==
    /\ Sent(Tx(fn, sender, to, tokenId, TRUE))
    /\ UNCHANGED <<tokenOwners, tokenApprovals, contractOwner, sbtTypes,
                   hasMintedBadge, nextTokenId>>

\* the onlyOwner modifier
OnlyOwner(sender) == sender = contractOwner

\* variant: _update without the require of the override
Soulbound_Transferable(to, tokenId) == TRUE

\* the require of the _update override: from == 0 || to == 0
Soulbound(to, tokenId) == tokenOwners[tokenId] = ZeroAddress \/ to = ZeroAddress

\* ERC721._isAuthorized: the holder of the token or the account approved for it
IsAuthorized(spender, tokenId) ==
    /\ spender # ZeroAddress
    /\ \/ tokenOwners[tokenId] = spender
       \/ tokenApprovals[tokenId] = spender

\* _update returns instead of reverting: the override's require, then the
\* authorisation that ERC721._update asks of a non-zero auth
UpdateAccepted(to, tokenId, auth) ==
    /\ Soulbound(to, tokenId)
    /\ auth # ZeroAddress => IsAuthorized(auth, tokenId)

\* what ERC721._update writes: the holder, and the approval is cleared when
\* the token had a holder
Update(to, tokenId) ==
    /\ tokenOwners' = [tokenOwners EXCEPT ![tokenId] = to]
    /\ tokenApprovals' = IF tokenOwners[tokenId] # ZeroAddress
                         THEN [tokenApprovals EXCEPT ![tokenId] = ZeroAddress]
                         ELSE tokenApprovals

\* createBadgeType(badgeTypeId, ..., maxSupply)
CreateBadgeType(sender, badgeTypeId, maxSupply) ==
    IF OnlyOwner(sender) /\ sbtTypes[badgeTypeId].maxSupply = 0
    THEN /\ sbtTypes' = [sbtTypes EXCEPT ![badgeTypeId] =
                            [isActive |-> TRUE, maxSupply |-> maxSupply,
                             mintedCount |-> 0]]
         /\ Sent(Tx("createBadgeType", sender, ZeroAddress, 0, FALSE))
         /\ UNCHANGED <<tokenOwners, tokenApprovals, contractOwner,
                        hasMintedBadge, nextTokenId>>
    ELSE Reverted("createBadgeType", sender, ZeroAddress, 0)

\* mintBadge(to, badgeTypeId); received is the answer of onERC721Received
\* when `to` is a contract, TRUE when it is not
MintBadge(sender, to, badgeTypeId, received) ==
    LET tokenId == nextTokenId
    IN /\ tokenId \in TokenIds
       /\ IF /\ OnlyOwner(sender)
             /\ sbtTypes[badgeTypeId].isActive
             /\ <<to, badgeTypeId>> \notin hasMintedBadge
             /\ sbtTypes[badgeTypeId].mintedCount < sbtTypes[badgeTypeId].maxSupply
             /\ to # ZeroAddress
             /\ UpdateAccepted(to, tokenId, ZeroAddress)
             /\ tokenOwners[tokenId] = ZeroAddress
             /\ received
          THEN /\ nextTokenId' = nextTokenId + 1
               /\ Update(to, tokenId)
               /\ hasMintedBadge' = hasMintedBadge \cup {<<to, badgeTypeId>>}
               /\ sbtTypes' = [sbtTypes EXCEPT ![badgeTypeId].mintedCount = @ + 1]
               /\ Sent(Tx("mintBadge", sender, to, tokenId, FALSE))
               /\ UNCHANGED contractOwner
          ELSE Reverted("mintBadge", sender, to, tokenId)

\* transferFrom and safeTransferFrom of ERC721, which the contract inherits
TransferFrom(fn, sender, from, to, tokenId, received) ==
    IF /\ to # ZeroAddress
       /\ UpdateAccepted(to, tokenId, sender)
       /\ tokenOwners[tokenId] = from
       /\ fn = "safeTransferFrom" => received
    THEN /\ Update(to, tokenId)
         /\ Sent(Tx(fn, sender, to, tokenId, FALSE))
         /\ UNCHANGED <<contractOwner, sbtTypes, hasMintedBadge, nextTokenId>>
    ELSE Reverted(fn, sender, to, tokenId)

\* approve of ERC721: by the holder of an existing token
Approve(sender, to, tokenId) ==
    IF tokenOwners[tokenId] # ZeroAddress /\ tokenOwners[tokenId] = sender
    THEN /\ tokenApprovals' = [tokenApprovals EXCEPT ![tokenId] = to]
         /\ Sent(Tx("approve", sender, to, tokenId, FALSE))
         /\ UNCHANGED <<tokenOwners, contractOwner, sbtTypes, hasMintedBadge,
                        nextTokenId>>
    ELSE Reverted("approve", sender, to, tokenId)

\* transferOwnership and renounceOwnership of Ownable; the zero address as
\* newOwner stands for renounceOwnership
TransferOwnership(sender, newOwner) ==
    IF OnlyOwner(sender)
    THEN /\ contractOwner' = newOwner
         /\ Sent(Tx(IF newOwner = ZeroAddress THEN "renounceOwnership"
                    ELSE "transferOwnership", sender, newOwner, 0, FALSE))
         /\ UNCHANGED <<tokenOwners, tokenApprovals, sbtTypes, hasMintedBadge,
                        nextTokenId>>
    ELSE Reverted(IF newOwner = ZeroAddress THEN "renounceOwnership"
                  ELSE "transferOwnership", sender, newOwner, 0)

\* the two transfer functions; only the safe one asks the receiver
TransferCalls == {<<"transferFrom", TRUE>>, <<"safeTransferFrom", TRUE>>,
                  <<"safeTransferFrom", FALSE>>}

NextSbt ==
    \/ \E s \in Accounts, k \in BadgeKeyInputs, m \in MaxSupplyInputs :
           CreateBadgeType(s, k, m)
    \/ \E s \in Accounts, to \in Accounts \cup {ZeroAddress},
          k \in BadgeKeyInputs, r \in BOOLEAN : MintBadge(s, to, k, r)
    \/ \E call \in TransferCalls, s \in Accounts,
          to \in Accounts \cup {ZeroAddress}, t \in TokenIds :
           \E from \in {tokenOwners[t], s} :
               TransferFrom(call[1], s, from, to, t, call[2])
    \/ \E s \in Accounts, to \in Accounts, t \in TokenIds : Approve(s, to, t)
    \/ \E s \in Accounts, o \in Accounts \cup {ZeroAddress} :
           TransferOwnership(s, o)

\* the ledger mode of the service is the contract
InitContract == Init /\ web3Configured = TRUE

\* the contract alone, under every sequence of transactions of the accounts
SpecSbt == InitContract /\ [][NextSbt]_vars

\* ------------------------------------------- eligibility: the evaluator
\* a secondary entry of a badge's rules; required is "true", "false" or
\* "absent" (the field left out), paramsOk = FALSE are params the mock
\* check rejects
Rule(method, required, paramsOk) ==
    [method |-> method, required |-> required, paramsOk |-> paramsOk]

PrimaryChoices ==
    {<<>>, <<"polygonid">>, <<"idos">>, <<"polygonid", "idos">>}

SecondaryChoices ==
    {<<>>,
     <<Rule("twitter_follow", "absent", TRUE)>>,
     <<Rule("snapshot_votes", "false", TRUE)>>,
     <<Rule("twitter_follow", "true", TRUE), Rule("snapshot_votes", "true", TRUE)>>,
     <<Rule("twitter_follow", "true", TRUE), Rule("snapshot_votes", "false", TRUE)>>,
     <<Rule("onchain_activity", "true", FALSE)>>,
     <<Rule("discord_member", "true", TRUE)>>}

LogicChoices == {"AND", "OR", "absent"}

RulesChoices ==
    {[primary |-> p, secondary |-> s, logic |-> l] :
        p \in PrimaryChoices, s \in SecondaryChoices, l \in LogicChoices}

\* the sessions of wallet 0xaa in the store, read at now = 1
SessionChoices ==
    {<<>>,
     <<Session("0xaa", "idos", "completed", 2)>>,
     <<Session("0xaa", "polygonid", "completed", NoExpiry)>>,
     <<Session("0xaa", "polygonid", "completed", 2),
       Session("0xaa", "idos", "completed", 2)>>,
     <<Session("0xaa", "idos", "completed", 0)>>,
     <<Session("0xaa", "idos", "pending", 2),
       Session("0xaa", "polygonid", "failed", 2)>>}

InitElig ==
    /\ InitBus
    /\ InitNoVerifRequests
    /\ elig = NoEval
    /\ \E r \in RulesChoices :
          badgeTypes = {[key |-> "dao-voter", isActive |-> TRUE, rules |-> r],
                        [key |-> "retired", isActive |-> FALSE, rules |-> r]}
    /\ verifs \in SessionChoices
    /\ now = 1
    /\ InitNoMints
    /\ web3Configured = FALSE

\* one call of checkEligibility, with the outcomes of its mock checks
Evaluate(wallet, badgeKey, draws) ==
    /\ elig' = [wallet |-> wallet, badgeKey |-> badgeKey, draws |-> draws,
                result |-> CheckEligibility(wallet, badgeKey, draws)]
    /\ UNCHANGED nonEligVars

NextElig ==
    \E w \in WalletInputs, k \in BadgeKeyInputs :
        \E d \in Draws(k) : Evaluate(w, k, d)

\* the evaluator alone, over every rules value and session set above
SpecElig == InitElig /\ [][NextElig]_vars

\* ------------------------------------------ verification: the operations
VFreeSlot(p) ==
    /\ vreq[p].pc = "idle"
    /\ \A q \in Procs : q < p => vreq[q].pc # "idle"

VStart == /\ vOps < MaxVerifOps
          /\ vOps' = vOps + 1

VRet(op, threw, error, id) == [op |-> op, threw |-> threw, error |-> error, id |-> id]

VDone(p, ret) ==
    /\ vreq' = [vreq EXCEPT ![p] = IdleVReq]
    /\ vret' = ret

\* repository.save of a loaded Verification whose status was set
SaveStatus(id, status) == [verifs EXCEPT ![id].status = status]

\* the row createVerificationSession inserts
NewSession(wallet, provider) ==
    Session(ToLower(wallet), provider, "pending", now + ExpiryWindow)

Initiating == {q \in Procs : vreq[q].op = "initiateDIDVerification"}

\* initiateDIDVerification, up to its call of the provider
\* variant: the provider is called whatever sessions the wallet holds
InitiateStart_Unchecked(p, wallet, provider) ==
    /\ VFreeSlot(p)
    /\ VStart
    /\ Len(verifs) + Cardinality(Initiating) < MaxSessions
    /\ vreq' = [vreq EXCEPT ![p] = [op |-> "initiateDIDVerification",
                                    pc |-> "iv_provider", id |-> 0,
                                    wallet |-> wallet, provider |-> provider]]
    /\ UNCHANGED vret
    /\ UNCHANGED <<verifs, now>>
    /\ UNCHANGED nonVerifVars

InitiateStart(p, wallet, provider) ==
    /\ VFreeSlot(p)
    /\ VStart
    /\ Len(verifs) + Cardinality(Initiating) < MaxSessions
    /\ IF \E i \in GetActiveVerifications(wallet, provider) : CanBeUsed(verifs[i])
       THEN VDone(p, VRet("initiateDIDVerification", TRUE, "Already has active verification", 0))
       ELSE /\ vreq' = [vreq EXCEPT ![p] = [op |-> "initiateDIDVerification",
                                            pc |-> "iv_provider", id |-> 0,
                                            wallet |-> wallet, provider |-> provider]]
            /\ UNCHANGED vret
    /\ UNCHANGED <<verifs, now>>
    /\ UNCHANGED nonVerifVars

\* String.prototype.toLowerCase on the provider names of the model
ProviderToLower(provider) == IF provider = "PolygonID" THEN "polygonid" ELSE provider

\* DIDService.getAdapter finds an adapter under the lower-cased name; one that
\* is not available counts as none
Registered(provider) == ProviderToLower(provider) \in Providers

\* didService.initVerification answered: the session is created on success.
\* ok = FALSE is success: false, which is also the answer when getAdapter
\* returns null (adapter unknown or not available) or the adapter throws.
IV_Create(p, ok) ==
    /\ vreq[p].pc = "iv_provider"
    /\ ok => Registered(vreq[p].provider)
    /\ IF ok
       THEN /\ verifs' = Append(verifs, NewSession(vreq[p].wallet, vreq[p].provider))
            /\ VDone(p, VRet("initiateDIDVerification", FALSE, "", Len(verifs) + 1))
       ELSE /\ VDone(p, VRet("initiateDIDVerification", TRUE, "DID provider error", 0))
            /\ UNCHANGED verifs
    /\ UNCHANGED <<now, vOps>>
    /\ UNCHANGED nonVerifVars

\* handleDIDVerificationCallback, up to its first await after the session
\* is loaded; the session id of a row is its index
CallbackStart(p, id) ==
    /\ VFreeSlot(p)
    /\ VStart
    /\ IF id \notin 1..Len(verifs)
       THEN VDone(p, VRet("handleDIDVerificationCallback", TRUE,
                          "Verification session not found", id))
       ELSE IF verifs[id].status # "pending"
       THEN VDone(p, VRet("handleDIDVerificationCallback", TRUE,
                          "Verification already processed", id))
       ELSE /\ vreq' = [vreq EXCEPT ![p] =
                           [op |-> "handleDIDVerificationCallback",
                            pc |-> IF IsExpired(verifs[id]) THEN "cb_expire"
                                   ELSE "cb_provider",
                            id |-> id, wallet |-> verifs[id].wallet,
                            provider |-> verifs[id].provider]]
            /\ UNCHANGED vret
    /\ UNCHANGED <<verifs, now>>
    /\ UNCHANGED nonVerifVars

\* the callback found its session past expiry: it stores expired and throws
CB_SaveExpired(p) ==
    /\ vreq[p].pc = "cb_expire"
    /\ verifs' = SaveStatus(vreq[p].id, "expired")
    /\ VDone(p, VRet("handleDIDVerificationCallback", TRUE,
                      "Verification session expired", vreq[p].id))
    /\ UNCHANGED <<now, vOps>>
    /\ UNCHANGED nonVerifVars

\* didService.handleCallback answered and updateVerificationSuccess or
\* updateVerificationFailure stored the outcome
\* variant: the outcome is stored on every pending session of the pair
CB_Complete_WholePair(p, ok) ==
    /\ vreq[p].pc = "cb_provider"
    /\ verifs' = [i \in 1..Len(verifs) |->
                    IF /\ verifs[i].wallet = verifs[vreq[p].id].wallet
                       /\ verifs[i].provider = verifs[vreq[p].id].provider
                       /\ verifs[i].status = "pending"
                    THEN [verifs[i] EXCEPT !.status =
                             IF ok THEN "completed" ELSE "failed"]
                    ELSE verifs[i]]
    /\ VDone(p, VRet("handleDIDVerificationCallback", FALSE, "", vreq[p].id))
    /\ UNCHANGED <<now, vOps>>
    /\ UNCHANGED nonVerifVars

CB_Complete(p, ok) ==
    /\ vreq[p].pc = "cb_provider"
    /\ verifs' = SaveStatus(vreq[p].id, IF ok THEN "completed" ELSE "failed")
    /\ VDone(p, VRet("handleDIDVerificationCallback", FALSE, "", vreq[p].id))
    /\ UNCHANGED <<now, vOps>>
    /\ UNCHANGED nonVerifVars

\* updateVerificationSuccess, updateVerificationFailure, expireVerification
\* and revokeVerification called by id: each loads the row and stores the
\* status it sets, whatever the status was
SetStatus(op, id, status) ==
    /\ VStart
    /\ IF id \notin 1..Len(verifs)
       THEN /\ vret' = VRet(op, TRUE, "Verification not found", id)
            /\ UNCHANGED verifs
       ELSE /\ verifs' = SaveStatus(id, status)
            /\ vret' = VRet(op, FALSE, "", id)
    /\ UNCHANGED <<now, vreq>>
    /\ UNCHANGED nonVerifVars

UpdateVerificationSuccess(id) == SetStatus("updateVerificationSuccess", id, "completed")

UpdateVerificationFailure(id) == SetStatus("updateVerificationFailure", id, "failed")

ExpireVerification(id) == SetStatus("expireVerification", id, "expired")

RevokeVerification(id) == SetStatus("revokeVerification", id, "failed")

\* the rows the UPDATE of cleanupExpiredVerifications matches
CleanupMatches ==
    {i \in 1..Len(verifs) :
        /\ verifs[i].status = "pending"
        /\ verifs[i].expiresAt # NoExpiry
        /\ verifs[i].expiresAt < now}

CleanupExpiredVerifications ==
    /\ VStart
    /\ verifs' = [i \in 1..Len(verifs) |->
                    IF i \in CleanupMatches
                    THEN [verifs[i] EXCEPT !.status = "expired"]
                    ELSE verifs[i]]
    /\ vret' = VRet("cleanupExpiredVerifications", FALSE, "", Cardinality(CleanupMatches))
    /\ UNCHANGED <<now, vreq>>
    /\ UNCHANGED nonVerifVars

\* the clock advances
Tick ==
    /\ now < MaxNow
    /\ now' = now + 1
    /\ UNCHANGED <<verifs, verifVars>>
    /\ UNCHANGED nonVerifVars

InitVerif ==
    /\ InitBus
    /\ InitNoMints
    /\ InitNoVerifRequests
    /\ elig = NoEval
    /\ badgeTypes = MintBadgeTypes
    /\ web3Configured = FALSE
    /\ verifs = <<>>
    /\ now = 0

VerifWallets == {"0xAA", "0xbb"}

NextVerif ==
    \/ \E p \in Procs, w \in VerifWallets, pr \in Providers : InitiateStart(p, w, pr)
    \/ \E p \in Procs, ok \in BOOLEAN : IV_Create(p, ok)
    \/ \E p \in Procs, id \in 1..(MaxSessions + 1) : CallbackStart(p, id)
    \/ \E p \in Procs : CB_SaveExpired(p)
    \/ \E p \in Procs, ok \in BOOLEAN : CB_Complete(p, ok)
    \/ \E id \in 1..(MaxSessions + 1) : UpdateVerificationSuccess(id)
    \/ \E id \in 1..(MaxSessions + 1) : UpdateVerificationFailure(id)
    \/ \E id \in 1..(MaxSessions + 1) : ExpireVerification(id)
    \/ \E id \in 1..(MaxSessions + 1) : RevokeVerification(id)
    \/ CleanupExpiredVerifications
    \/ Tick

\* the verification sessions alone, requests overlapping as they arrive
SpecVerif == InitVerif /\ [][NextVerif]_vars

\* the provider names of initiation requests: registered, registered under
\* another case, and not registered
ProviderInputs == {"polygonid", "PolygonID", "civic"}

AllVIdle == \A p \in Procs : vreq[p].pc = "idle"

\* the operations the routes of the DID controller reach: initiation and
\* callback, each run to completion before the next starts, while time passes
NextVerifApi ==
    \/ AllVIdle /\ \E p \in Procs, w \in VerifWallets, pr \in ProviderInputs :
           InitiateStart(p, w, pr)
    \/ \E p \in Procs, ok \in BOOLEAN : IV_Create(p, ok)
    \/ AllVIdle /\ \E p \in Procs, id \in 1..(MaxSessions + 1) : CallbackStart(p, id)
    \/ \E p \in Procs : CB_SaveExpired(p)
    \/ \E p \in Procs, ok \in BOOLEAN : CB_Complete(p, ok)
    \/ Tick

SpecVerifApi == InitVerif /\ [][NextVerifApi]_vars

\* the steps the runtime takes by itself once a request is in flight: the
\* provider answers and the handler runs on to its return
VerifProgress ==
    \E p \in Procs : \/ \E ok \in BOOLEAN : IV_Create(p, ok)
                     \/ CB_SaveExpired(p)
                     \/ \E ok \in BOOLEAN : CB_Complete(p, ok)

\* the verification sessions with what the program schedules by itself: time
\* passes and a request in flight runs on. No timer, job or route calls
\* cleanupExpiredVerifications, so the sweep runs only when something outside
\* the program calls it and gets no fairness.
SpecVerifFair ==
    /\ InitVerif
    /\ [][NextVerif]_vars
    /\ WF_vars(Tick)
    /\ WF_vars(VerifProgress)

\* ---------------------------------------------------------------- claims
StoredWallets == {ToLower(w) : w \in WalletInputs}

\* the rows of a (wallet, badge type) pair with isRevoked = false
NonRevoked(wallet, key) ==
    {i \in 1..Len(mints) :
        /\ ToLower(mints[i].wallet) = wallet
        /\ mints[i].badgeKey = key
        /\ ~mints[i].isRevoked}

\* C1: when canMintBadge, initiateMint and revokeBadge run one after another,
\* each to completion, every (wallet, badge type) pair has at most one
\* BadgeMint row with isRevoked = false.
C1_UniqueNonRevoked ==
    \A w \in StoredWallets, k \in BadgeKeyInputs :
        Cardinality(NonRevoked(w, k)) <= 1

\* C1 witness: a pair was minted, revoked and minted again, so it has a
\* revoked row beside its one non-revoked row.
C1_Witness ==
    \E i, j \in 1..Len(mints) :
        /\ mints[i].wallet = mints[j].wallet
        /\ mints[i].badgeKey = mints[j].badgeKey
        /\ mints[i].isRevoked
        /\ ~mints[j].isRevoked

\* C2: two initiateMint calls for the same wallet and badge type that are in
\* flight together never both hold a row of their own that is not revoked.
C2_OverlapCreatesOne ==
    \A p, q \in Procs :
        (/\ p # q
         /\ req[p].op = "initiateMint" /\ req[q].op = "initiateMint"
         /\ req[p].mintId # 0 /\ req[q].mintId # 0
         /\ ToLower(req[p].wallet) = ToLower(req[q].wallet)
         /\ req[p].key = req[q].key)
        => (mints[req[p].mintId].isRevoked \/ mints[req[q].mintId].isRevoked)

\* C3: a row stored with isRevoked = true is never stored with
\* isRevoked = false by a later step.
C3_RevocationOneWay ==
    [][\A i \in 1..Len(mints) : mints[i].isRevoked => mints'[i].isRevoked]_vars

\* C10: for a completed row, at most one badge_revoked event is published to
\* its wallet and at most one to the admin channel, and a revoked row has
\* both.
C10_OneRevocationEvent ==
    \A i \in 1..Len(mints) :
        LET toWallet == PubCount(Ev("wallet", mints[i].wallet, "badge_revoked", "id", i))
            toAdmin == PubCount(Ev("channel", "admin", "badge_revoked", "id", i))
        IN mints[i].status = "completed" =>
              /\ toWallet <= 1 /\ toAdmin <= 1
              /\ mints[i].isRevoked => (toWallet = 1 /\ toAdmin = 1)

\* C5: a sendToChannel(C, m) call writes m to exactly the registered
\* connections whose socket is open and whose subscription set contains C;
\* a subscribed connection whose socket is not open is left out and the
\* other subscribers still get m.
C5_ChannelDelivery ==
    lastCall.op = "sendToChannel" =>
        \A c \in ClientIds :
            c \in delivered <=>
                /\ c \in registry
                /\ sockets[c].readyState = "OPEN"
                /\ lastCall.target \in clients[c].subscriptions

\* C5 witness: a call for a channel with two registered subscribers, one
\* with an open socket that got the message and one with a closed socket
\* that did not.
C5_Witness ==
    /\ lastCall.op = "sendToChannel"
    /\ \E c, d \in registry :
          /\ lastCall.target \in clients[c].subscriptions
          /\ lastCall.target \in clients[d].subscriptions
          /\ sockets[c].readyState = "OPEN" /\ c \in delivered
          /\ sockets[d].readyState = "CLOSED" /\ d \notin delivered

\* C6: a sendToWallet(W, m) call writes m only to connections whose
\* connection request carried the wallet parameter W, whatever they are
\* subscribed to.
C6_WalletDelivery ==
    lastCall.op = "sendToWallet" =>
        \A c \in delivered : sockets[c].wallet = lastCall.target

\* C6 witness: a call for a wallet that reached a connection opened with
\* that wallet and left out an open connection without it that is subscribed
\* to a channel.
C6_Witness ==
    /\ lastCall.op = "sendToWallet"
    /\ \E c, d \in registry :
          /\ c \in delivered /\ sockets[c].wallet = lastCall.target
          /\ d \notin delivered /\ sockets[d].readyState = "OPEN"
          /\ sockets[d].wallet # lastCall.target
          /\ clients[d].subscriptions # {}

\* the rules of the badge type the last checkEligibility call evaluated
EvaluatedRules ==
    (CHOOSE b \in badgeTypes : b.key = elig.badgeKey /\ b.isActive).rules

\* the wallet of the last call holds a session of the provider that is
\* completed and not past its expiry
HasUsableSession(provider) ==
    \E i \in 1..Len(verifs) :
        /\ verifs[i].wallet = ToLower(elig.wallet)
        /\ verifs[i].provider = provider
        /\ verifs[i].status = "completed"
        /\ (verifs[i].expiresAt = NoExpiry \/ verifs[i].expiresAt > now)

Listed == {EvaluatedRules.primary[i] : i \in 1..Len(EvaluatedRules.primary)}

Returned == elig.badgeKey # "" /\ elig.result.error = "none"

\* C8: the primary verdict of a checkEligibility call is, under logic = AND,
\* true exactly when every listed provider has a usable session, and under
\* logic = OR, true exactly when at least one listed provider has one.
C8_PrimaryVerdict ==
    Returned =>
        /\ EvaluatedRules.logic = "AND" =>
              (elig.result.primaryEligible <=> \A p \in Listed : HasUsableSession(p))
        /\ EvaluatedRules.logic = "OR" =>
              (elig.result.primaryEligible <=> \E p \in Listed : HasUsableSession(p))

\* the missingRequirements of the last call have an entry of the kind that
\* names the given provider or method
MissingEntry(kind, name) ==
    \E i \in 1..Len(elig.result.missingRequirements) :
        LET e == elig.result.missingRequirements[i]
        IN /\ e.kind = kind
           /\ \E j \in 1..Len(e.names) : e.names[j] = name

\* the attribute check of secondary entry i of the last call was satisfied
SecondarySatisfied(i) ==
    LET rule == EvaluatedRules.secondary[i]
    IN rule.method \in KnownMethods /\ rule.paramsOk /\ elig.draws[i]

\* every unsatisfied required requirement of the last call has its entry
EveryUnsatisfiedHasEntry ==
    /\ \A i \in 1..Len(EvaluatedRules.secondary) :
          (EvaluatedRules.secondary[i].required # "false" /\ ~SecondarySatisfied(i))
          => MissingEntry("secondary_failed", EvaluatedRules.secondary[i].method)
    /\ EvaluatedRules.logic = "AND" =>
          \A p \in Listed : ~HasUsableSession(p) => MissingEntry("missing_provider", p)
    /\ (EvaluatedRules.logic # "AND" /\ \A p \in Listed : ~HasUsableSession(p)) =>
          \A p \in Listed : MissingEntry("missing_one_of", p)

\* the scenario: OR over polygonid and idos, a wallet without sessions
NoSessions == \A i \in 1..Len(verifs) : verifs[i].wallet # ToLower(elig.wallet)

ScenarioB ==
    /\ Returned
    /\ EvaluatedRules.logic = "OR"
    /\ EvaluatedRules.primary = <<"polygonid", "idos">>
    /\ NoSessions

\* C9: when checkEligibility returns eligible = false, missingRequirements
\* has an entry for every unsatisfied secondary entry that is required, for
\* every unsatisfied provider under AND, and, when no listed provider is
\* satisfied under another logic, one entry that names every listed
\* provider; OR over polygonid and idos with no sessions is not eligible.
C9_MissingEntries ==
    /\ (Returned /\ ~elig.result.eligible) => EveryUnsatisfiedHasEntry
    /\ ScenarioB => ~elig.result.eligible

\* C9 witness: the scenario's call returned not eligible with one entry that
\* names both providers.
C9_Witness ==
    /\ ScenarioB
    /\ ~elig.result.eligible
    /\ MissingEntry("missing_one_of", "polygonid")
    /\ MissingEntry("missing_one_of", "idos")

Terminal == {"completed", "failed", "expired"}

\* a handleDIDVerificationCallback call returns or throws in this step
CallbackEnds ==
    \/ \E p \in Procs : /\ vreq[p].op = "handleDIDVerificationCallback"
                         /\ vreq'[p].pc = "idle"
    \/ /\ vOps' # vOps
       /\ vreq' = vreq
       /\ vret'.op = "handleDIDVerificationCallback"

\* C4: no step changes the status of a Verification row that is completed,
\* failed or expired, and a callback that ends on a row that is not pending
\* throws and leaves the rows as they are.
C4_TerminalIsFinal ==
    [][/\ \A i \in 1..Len(verifs) :
             verifs[i].status \in Terminal => verifs'[i].status = verifs[i].status
       /\ (/\ CallbackEnds
           /\ vret'.id \in 1..Len(verifs)
           /\ verifs[vret'.id].status # "pending")
          => (vret'.threw /\ verifs' = verifs)]_vars

\* session i is pending and its expiry has passed
PendingPastExpiry(i) ==
    /\ i \in 1..Len(verifs)
    /\ verifs[i].status = "pending"
    /\ IsExpired(verifs[i])

\* C11: every pending Verification whose expiry has passed is eventually
\* stored as expired, whether or not a callback arrives for it.
C11_SweptEventually ==
    \A i \in 1..MaxSessions :
        PendingPastExpiry(i) ~> (i \in 1..Len(verifs) /\ verifs[i].status = "expired")

\* the status changes the mint state machine allows for one row
MintStatusStep(from, to) ==
    \/ to = from
    \/ from = "pending" /\ to = "processing"
    \/ from = "processing" /\ to \in {"completed", "failed"}

\* C12: the status of a BadgeMint row changes only from pending to processing
\* and from processing to completed or failed: never straight from pending to
\* a final status, never backwards, never out of completed or failed.
C12_StatusPath ==
    [][\A i \in 1..Len(mints) :
          MintStatusStep(mints[i].status, mints'[i].status)]_vars

\* a badge type with this key is stored and is active
TypeIsActive(key) == \E b \in badgeTypes : b.key = key /\ b.isActive

\* the Eligibility Evaluator returns normally with eligible = true
EvaluatorAccepts(wallet, key) ==
    \E draws \in Draws(key) :
        LET e == CheckEligibility(wallet, key, draws)
        IN e.error = "none" /\ e.eligible

\* slot p holds a canMintBadge call that returns in this step
CanMintEnds(p) == req[p].op = "canMintBadge" /\ req'[p].pc = "idle"

\* C13: a canMintBadge call that runs alone returns canMint = true exactly
\* when the badge type is stored and active, the pair has no row with
\* isRevoked = false and the evaluator returns eligible = true; an inactive or
\* unknown type is reported first, then a blocking row, which is returned as
\* existingMint, and the evaluator is reached only when both checks passed.
C13_CanMintVerdict ==
    [][\A p \in Procs : CanMintEnds(p) =>
          LET w == req[p].wallet
              k == req[p].key
              blocking == NonRevoked(ToLower(w), k)
          IN /\ lastRet'.ok <=> (/\ TypeIsActive(k)
                                 /\ blocking = {}
                                 /\ EvaluatorAccepts(w, k))
             /\ ~TypeIsActive(k) => /\ lastRet'.reason = "not_found_or_inactive"
                                    /\ req[p].pc # "cm_elig"
             /\ (TypeIsActive(k) /\ blocking # {})
                    => /\ lastRet'.reason = "already_have"
                       /\ lastRet'.mintId \in blocking
                       /\ req[p].pc # "cm_elig"
             /\ req[p].pc = "cm_elig" => lastRet'.mintId = 0]_vars

\* C13 witness: canMintBadge answered canMint = true for a pair whose only
\* row is revoked.
C13_Witness ==
    /\ lastRet.op = "canMintBadge"
    /\ lastRet.ok
    /\ Len(mints) = 1
    /\ mints[1].isRevoked
    /\ mints[1].badgeKey = "dao-voter"

\* the reason canMintBadge gives for rejecting (wallet, key), "" when it
\* accepts
RejectionReason(wallet, key) ==
    IF ~TypeIsActive(key) THEN "not_found_or_inactive"
    ELSE IF NonRevoked(ToLower(wallet), key) # {} THEN "already_have"
    ELSE IF EvaluatorAccepts(wallet, key) THEN ""
    ELSE IF \E draws \in Draws(key) :
                CheckEligibility(wallet, key, draws).error # "none"
         THEN "error_checking"
    ELSE "not_eligible"

\* slot p holds an initiateMint call whose canMintBadge is at the step that
\* rejects it: the lookups, or the evaluator
RejectedMint(p) ==
    /\ req[p].op = "initiateMint"
    /\ LET reason == RejectionReason(req[p].wallet, req[p].key)
       IN \/ /\ req[p].pc = "cm_existing"
             /\ reason \in {"not_found_or_inactive", "already_have"}
          \/ /\ req[p].pc = "cm_elig"
             /\ reason # ""

\* C14: the step in which canMintBadge rejects an initiateMint call that runs
\* alone ends the call: no BadgeMint row is inserted or changed, the ledger is
\* not called, minting_failed is published once to the wallet and once to the
\* minting channel, and the call returns success = false with the reason of
\* canMintBadge.
C14_RejectedMint ==
    [][\A p \in Procs : (RejectedMint(p) /\ req'[p] # req[p]) =>
          LET failed(scope, to) ==
                  Ev(scope, to, "minting_failed", "eligibility_check", 0)
          IN /\ req'[p].pc = "idle"
             /\ mints' = mints
             /\ hasMintedBadge' = hasMintedBadge
             /\ nextTokenId' = nextTokenId
             /\ lastRet' = Ret("initiateMint", FALSE, FALSE,
                               RejectionReason(req[p].wallet, req[p].key), 0)
             /\ published' = published
                    (+) SetToBag({failed("wallet", req[p].wallet)})
                    (+) SetToBag({failed("channel", "minting")})]_vars

\* C14 witness: an initiateMint call was rejected because the wallet holds
\* the badge already.
C14_Witness ==
    /\ lastRet.op = "initiateMint"
    /\ ~lastRet.ok
    /\ lastRet.reason = "already_have"
    /\ Len(mints) = 1
    /\ PubCount(Ev("channel", "minting", "minting_failed", "eligibility_check", 0)) = 1

\* slot p holds an accepted initiateMint call that returns its mint id in
\* this step
MintReturns(p) ==
    /\ req[p].op = "initiateMint"
    /\ req'[p].pc = "idle"
    /\ ~lastRet'.threw
    /\ lastRet'.ok

\* C15: an accepted initiateMint returns its mint id before the ledger call
\* has resolved: at the return the row is still pending or processing and
\* holds no token id.
C15_ReturnBeforeLedger ==
    [][\A p \in Procs : MintReturns(p) =>
          /\ lastRet'.mintId \in 1..Len(mints')
          /\ mints'[lastRet'.mintId].status \in {"pending", "processing"}
          /\ mints'[lastRet'.mintId].tokenId = 0]_vars

\* slot p holds an initiateMint call whose ledger call threw and whose
\* failure handling ends in this step
LedgerFailureHandled(p) ==
    /\ req[p].op = "initiateMint"
    /\ req[p].pc = "im_save_fail"
    /\ req'[p].pc = "idle"

\* C16: when the ledger call of an initiateMint fails, the call leaves its
\* row with status failed, the ledger's message in the metadata and no token
\* id, and has published minting_failed with the id of the row to the wallet
\* and to the minting channel.
C16_LedgerFailureRecorded ==
    [][\A p \in Procs : LedgerFailureHandled(p) =>
          LET id == req[p].mintId
              failed(scope, to) == Ev(scope, to, "minting_failed", "id", id)
          IN /\ id \in 1..Len(mints')
             /\ mints'[id].status = "failed"
             /\ mints'[id].metaError = LedgerError
             /\ mints'[id].tokenId = 0
             /\ mints'[id].transactionHash = ""
             /\ CopiesIn(failed("wallet", req[p].wallet), published') >= 1
             /\ CopiesIn(failed("channel", "minting"), published') >= 1
             /\ CopiesIn(failed("wallet", req[p].wallet), published) = 0]_vars

\* C16 witness: a row whose ledger call failed is stored as failed with the
\* message, and its minting_failed event is out.
C16_Witness ==
    /\ lastRet.op = "initiateMint"
    /\ lastRet.threw
    /\ lastRet.mintId = 1
    /\ mints[1].status = "failed"
    /\ mints[1].metaError = LedgerError
    /\ PubCount(Ev("channel", "minting", "minting_failed", "id", 1)) >= 1

\* a revokeBadge call that loaded its row takes slot p in this step
RevokeProceeds(p) == req[p].pc = "idle" /\ req'[p].op = "revokeBadge"

\* a revokeBadge call is made and ends in the same step, at its load
RevokeRefused ==
    /\ opCount' # opCount
    /\ req' = req
    /\ lastRet'.op = "revokeBadge"

\* mint id names no row, or a row with isRevoked = true
MissingOrRevoked(id) == id \notin 1..Len(mints) \/ mints[id].isRevoked

\* C17: revokeBadge goes on to its write only for a stored row that is not
\* revoked; called with an id that names no row or a revoked row it throws
\* (NotFoundError, ValidationError), changes no BadgeMint row and publishes
\* nothing.
C17_RevokeRefused ==
    [][/\ \A p \in Procs : RevokeProceeds(p) => ~MissingOrRevoked(req'[p].mintId)
       /\ RevokeRefused =>
             /\ MissingOrRevoked(lastRet'.mintId)
             /\ lastRet'.threw
             /\ lastRet'.reason = IF lastRet'.mintId \in 1..Len(mints)
                                  THEN "ValidationError" ELSE "NotFoundError"
             /\ mints' = mints
             /\ published' = published]_vars

\* C17 witness: revokeBadge was refused for a row revoked before, whose one
\* badge_revoked event is all that was published about the revocation.
C17_Witness ==
    /\ lastRet.op = "revokeBadge"
    /\ lastRet.threw
    /\ lastRet.reason = "ValidationError"
    /\ lastRet.mintId = 1
    /\ mints[1].isRevoked
    /\ PubCount(Ev("channel", "admin", "badge_revoked", "id", 1)) = 1

\* slot p holds an initiateMint call that the existing-record guard of
\* canMintBadge rejects in this step
BlockedByExisting(p) ==
    /\ req[p].op = "initiateMint"
    /\ req'[p].pc = "idle"
    /\ lastRet'.reason = "already_have"

\* C18: initiateMint is rejected by the existing-record guard only when the
\* pair has a completed row with isRevoked = false; a failed row blocks
\* nothing.
C18_FailedDoesNotBlock ==
    [][\A p \in Procs : BlockedByExisting(p) =>
          \E i \in NonRevoked(ToLower(req[p].wallet), req[p].key) :
              mints[i].status = "completed"]_vars

\* the secondary entries of the evaluated rules that take part in the verdict
RequiredEntries ==
    {i \in 1..Len(EvaluatedRules.secondary) :
        EvaluatedRules.secondary[i].required # "false"}

\* the secondary verdict of the last call: rules.logic (AND when it is left
\* out) over the results of the required entries, true when there is none
SecondaryVerdict ==
    IF RequiredEntries = {} THEN TRUE
    ELSE IF EvaluatedRules.logic = "OR"
         THEN \E i \in RequiredEntries : elig.result.secondary[i].verified
         ELSE \A i \in RequiredEntries : elig.result.secondary[i].verified

\* the outcomes of the attribute checks that differ from those of the last
\* call at most in entries with required = false
OptionalVariants ==
    {d \in Draws(elig.badgeKey) : \A i \in RequiredEntries : d[i] = elig.draws[i]}

\* C19: a checkEligibility call that returns has eligible = primary verdict
\* and secondary verdict, the secondary verdict taken with rules.logic over
\* the entries with required # false and true when there is none; with other
\* results for the entries with required = false the call returns the same
\* eligible and the same missingRequirements.
C19_RequiredOnly ==
    Returned =>
        /\ elig.result.eligible = (elig.result.primaryEligible /\ SecondaryVerdict)
        /\ \A d \in OptionalVariants :
              LET other == CheckEligibility(elig.wallet, elig.badgeKey, d)
              IN /\ other.eligible = elig.result.eligible
                 /\ other.missingRequirements = elig.result.missingRequirements

\* C19 witness: the call found the wallet eligible under OR or AND with its
\* required entry satisfied and its optional entry not.
C19_Witness ==
    /\ Returned
    /\ Len(EvaluatedRules.secondary) = 2
    /\ RequiredEntries = {1}
    /\ elig.result.secondary[1].verified
    /\ ~elig.result.secondary[2].verified
    /\ elig.result.eligible

\* the last call evaluated an active badge type whose rules have a secondary
\* entry with a method that is no known attribute check
UnknownMethodEvaluated ==
    /\ elig.badgeKey # ""
    /\ ActiveBadgeType(elig.badgeKey) # {}
    /\ \E i \in 1..Len(EvaluatedRules.secondary) :
          EvaluatedRules.secondary[i].method \notin KnownMethods

\* C20: a checkEligibility call on rules with a secondary entry of unknown
\* method fails with EligibilityError, whatever the wallet, and returns no
\* result.
C20_UnknownMethodFails ==
    UnknownMethodEvaluated => elig.result.error = "EligibilityError"

\* the wallet holds a session of the provider that is completed and whose
\* expiresAt is unset or after now
UsableSession(wallet, provider) ==
    \E i \in 1..Len(verifs) :
        /\ verifs[i].wallet = ToLower(wallet)
        /\ verifs[i].provider = provider
        /\ verifs[i].status = "completed"
        /\ (verifs[i].expiresAt = NoExpiry \/ verifs[i].expiresAt > now)

\* slot p holds an initiateDIDVerification call that ends in this step
InitiationEnds(p) ==
    /\ vreq[p].op = "initiateDIDVerification"
    /\ vreq'[p].pc = "idle"

PastExpiry(i, t) == verifs[i].expiresAt # NoExpiry /\ t > verifs[i].expiresAt

\* C22: a callback that finds its pending session past expiry does not go on
\* to the adapter but stores expired and throws, and no step stores completed
\* on a session at a time after its expiresAt.
C22_NoLateCompletion ==
    [][/\ \A p \in Procs :
             (vreq[p].pc = "idle" /\ vreq'[p].pc = "cb_provider")
                => ~PastExpiry(vreq'[p].id, now)
       /\ \A p \in Procs :
             (vreq[p].pc = "cb_expire" /\ vreq'[p].pc = "idle")
                => (vret'.threw /\ verifs'[vreq[p].id].status = "expired")
       /\ \A i \in 1..Len(verifs) :
             (verifs[i].status # "completed" /\ verifs'[i].status = "completed")
                => ~PastExpiry(i, now)]_vars

\* every event of the sequence is in bag `after` once more than in `before`
PublishedIn(events, before, after) ==
    \A k \in 1..Len(events) :
        CopiesIn(events[k], after) > CopiesIn(events[k], before)

\* C23: a callback step that takes a session from pending to completed or to
\* failed publishes the event of that outcome to the session's wallet and on
\* the verification channel.
C23_OutcomePublished ==
    [][\A p \in Procs :
          (/\ vreq[p].op = "handleDIDVerificationCallback"
           /\ vreq'[p].pc = "idle"
           /\ verifs[vreq[p].id].status = "pending")
          => LET id == vreq[p].id
                 wallet == verifs[id].wallet
             IN /\ verifs'[id].status = "completed"
                      => PublishedIn(SendVerificationCompleted(wallet, id),
                                     published, published')
                /\ verifs'[id].status = "failed"
                      => PublishedIn(SendVerificationFailed(wallet, id),
                                     published, published')]_vars

\* row i is usable: completed, and expiresAt unset or later than now
Usable(i) ==
    /\ verifs[i].status = "completed"
    /\ (verifs[i].expiresAt = NoExpiry \/ verifs[i].expiresAt > now)

\* C24: getActiveVerifications returns exactly the usable rows of the wallet,
\* of the provider when one is given, and canBeUsed accepts exactly the usable
\* rows, whatever their status and however expiresAt and now are ordered.
C24_UsableAgree ==
    /\ \A w \in VerifWallets, pr \in ProviderInputs \cup {""} :
          GetActiveVerifications(w, pr) =
              {i \in 1..Len(verifs) : /\ Usable(i)
                                      /\ verifs[i].wallet = ToLower(w)
                                      /\ (pr # "" => verifs[i].provider = pr)}
    /\ \A i \in 1..Len(verifs) : CanBeUsed(verifs[i]) <=> Usable(i)

\* the wallet holds a completed session, not past its expiry, of a provider
\* the rules of the badge type list
HoldsListedSession(wallet, key) ==
    \E b \in badgeTypes, i \in 1..Len(verifs) :
        /\ b.key = key /\ b.isActive
        /\ \E k \in 1..Len(b.rules.primary) : b.rules.primary[k] = verifs[i].provider
        /\ verifs[i].wallet = ToLower(wallet)
        /\ verifs[i].status = "completed"
        /\ (verifs[i].expiresAt = NoExpiry \/ verifs[i].expiresAt > now)

\* C25: no step of canMintBadge or initiateMint inserts or changes a
\* Verification row, and every consultation of the evaluator for a wallet
\* that holds a completed, unexpired session of a listed provider accepts the
\* wallet, however many checks and mints went before.
C25_SessionsReusable ==
    [][/\ verifs' = verifs
       /\ \A p \in Procs :
             (/\ req[p].pc = "cm_elig"
              /\ req'[p] # req[p]
              /\ HoldsListedSession(req[p].wallet, req[p].key))
             => IF req[p].op = "initiateMint"
                THEN req'[p].pc = "im_create"
                ELSE lastRet'.ok]_vars

\* C25 witness: a second mint of the wallet was accepted on the session that
\* had served its first mint.
C25_Witness ==
    /\ lastRet.op = "initiateMint"
    /\ lastRet.ok
    /\ lastRet.mintId = 2
    /\ mints[1].wallet = mints[2].wallet
    /\ mints[1].status = "completed"
    /\ Len(verifs) = 1
    /\ verifs[1].status = "completed"

\* a heartbeat tick that sends at least one ping: only the heartbeat turns
\* the isAlive mark of a connection it keeps from TRUE to FALSE
ProbeSent ==
    \E d \in registry :
        clients[d].isAlive /\ d \in registry' /\ ~clients'[d].isAlive

\* connection c was accepted earlier and has left the registry
Removed(c) == c \notin registry /\ sockets[c].readyState # "NONE"

\* C26: a registered connection whose isAlive mark is FALSE was pinged by the
\* last heartbeat tick and has sent no pong since. At a heartbeat tick every
\* such connection is terminated and leaves the registry, and every
\* connection whose mark is TRUE stays, with its socket as it was; a
\* connection that has left the registry never returns to it and is written
\* to by no later call.
C26_HeartbeatRemoval ==
    [][\A c \in ClientIds :
          /\ ((ProbeSent \/ Heartbeat) /\ c \in registry)
             => IF clients[c].isAlive
                THEN c \in registry' /\ sockets'[c] = sockets[c]
                ELSE c \notin registry' /\ sockets'[c].readyState = "CLOSED"
          /\ Removed(c) => (c \notin registry' /\ c \notin delivered')]_vars

\* C26 witness: the first connection was pinged, sent no pong and was removed
\* by the next tick, which kept and pinged the connection accepted in between.
C26_Witness ==
    /\ busOps = 4
    /\ 1 \notin registry
    /\ sockets[1].readyState = "CLOSED"
    /\ 2 \in registry
    /\ sockets[2].readyState = "OPEN"
    /\ ~clients[2].isAlive

\* the two shapes of a subscribe message name the same channels
BothShapesAgree ==
    \A ch \in Channels :
        /\ SubscriptionChannels(Message("subscribe", TRUE, {ch}, "", ""))
              = SubscriptionChannels(Message("subscribe", FALSE, {}, ch, ""))
        /\ SubscriptionChannels(Message("subscribe", TRUE, {ch}, "", ""))
              = SubscriptionChannels(Message("subscribe", FALSE, {}, "", ch))

\* the step answers connection c with a subscription confirmation
SubscriptionConfirmed(c) ==
    lastReply'.type = "subscription_confirmed" /\ lastReply'.to = c

\* C27: both shapes of a subscribe message name the same channels; a
\* confirmed subscription keeps the channels the connection had, so that a
\* channel it already had changes nothing; the confirmation carries the
\* resulting set as `channels` and, as `subscribed`, the channels that this
\* request added to the set.
C27_SubscribeConfirmation ==
    [][\A c \in ClientIds :
          SubscriptionConfirmed(c)
          => /\ BothShapesAgree
             /\ clients[c].subscriptions \subseteq clients'[c].subscriptions
             /\ lastReply'.channels = clients'[c].subscriptions
             /\ lastReply'.subscribed
                   = clients'[c].subscriptions \ clients[c].subscriptions]_vars

\* what holds of a confirmed subscription: the shapes, the resulting set
\* and `channels`
C27_SubscribeSet ==
    [][\A c \in ClientIds :
          SubscriptionConfirmed(c)
          => /\ BothShapesAgree
             /\ clients[c].subscriptions \subseteq clients'[c].subscriptions
             /\ lastReply'.channels = clients'[c].subscriptions]_vars

\* the step delivers a message of a channel: sendToChannel, or broadcast
\* with its channel argument
ChannelCall ==
    /\ lastCall'.op \in {"sendToChannel", "broadcast"}
    /\ lastCall'.target \in Channels

\* C28: an unsubscribe message of connection c with a list leaves c with its
\* former set less the listed channels, one without a list leaves it with
\* the empty set, and the answer carries the set that is left; the step
\* changes no other connection and not the registry; and a message of a
\* channel is delivered only to connections that hold the channel in their
\* set at that time.
C28_Unsubscribe ==
    [][/\ \A c \in ClientIds, m \in ClientMessages :
             (m.type = "unsubscribe" /\ HandleMessage(c, m))
             => /\ clients'[c].subscriptions
                      = IF m.hasChannels
                        THEN clients[c].subscriptions \ m.channels
                        ELSE {}
                /\ lastReply'.type = "unsubscription_confirmed"
                /\ lastReply'.channels = clients'[c].subscriptions
                /\ \A d \in ClientIds \ {c} : clients'[d] = clients[d]
                /\ registry' = registry
       /\ ChannelCall
             => \A c \in delivered' :
                   /\ c \in registry'
                   /\ lastCall'.target \in clients'[c].subscriptions]_vars

\* C28 witness: a connection that held both channels has dropped the listed
\* one and kept the other, while the other connection still holds its own.
C28_Witness ==
    /\ lastReply.type = "unsubscription_confirmed"
    /\ lastReply.to = 1
    /\ clients[1].subscriptions = {"admin"}
    /\ clients[2].subscriptions = {"minting"}
    /\ busOps = 5

\* the rows of the pair that are revoked
RevokedMint(wallet, key) ==
    {i \in 1..Len(mints) :
        /\ mints[i].wallet = ToLower(wallet)
        /\ mints[i].badgeKey = key
        /\ mints[i].isRevoked}

\* the Eligibility Evaluator accepts the wallet whatever the outside
\* verifiers answer
StillEligible(wallet, key) ==
    \A draws \in Draws(key) :
        LET e == CheckEligibility(wallet, key, draws)
        IN e.error = "none" /\ e.eligible

\* slot p holds an initiateMint call for a pair all of whose rows are revoked
\* and whose badge type is active, and the call takes a step at pc
RemintStep(p, pc) ==
    /\ req[p].op = "initiateMint"
    /\ req[p].pc = pc
    /\ req'[p] # req[p]
    /\ TypeIsActive(req[p].key)
    /\ RevokedMint(req[p].wallet, req[p].key) # {}
    /\ ExistingMint(req[p].wallet, req[p].key) = {}

\* C29: revokeBadge writes isRevoked to the row it was given and to no other
\* row; when that row was the only row of its pair that was not revoked, an
\* initiateMint for the pair that follows passes the existing-record guard,
\* is accepted when the wallet is still eligible, and inserts a new row;
\* the revoked row stays as it is in every step.
C29_RemintAfterRevoke ==
    [][\A p \in Procs :
          /\ (req[p].pc = "rb_save" /\ req'[p] # req[p])
             => /\ mints'[req[p].mintId].isRevoked
                /\ \A i \in 1..Len(mints) :
                      i # req[p].mintId => mints'[i] = mints[i]
          /\ RemintStep(p, "cm_existing") => req'[p].pc = "cm_elig"
          /\ (RemintStep(p, "cm_elig") /\ StillEligible(req[p].wallet, req[p].key))
             => req'[p].pc = "im_create"
          /\ RemintStep(p, "im_create")
             => /\ Len(mints') = Len(mints) + 1
                /\ mints'[Len(mints')].wallet = ToLower(req[p].wallet)
                /\ mints'[Len(mints')].badgeKey = req[p].key
                /\ ~mints'[Len(mints')].isRevoked
          /\ \A i \in 1..Len(mints) :
                mints[i].isRevoked => (Len(mints') >= i /\ mints'[i] = mints[i])]_vars

\* C29 witness: the first row of the pair was revoked and a second row of
\* the same pair was inserted by the initiateMint that followed.
C29_Witness ==
    /\ Len(mints) = 2
    /\ mints[1].isRevoked
    /\ ~mints[2].isRevoked
    /\ mints[2].wallet = mints[1].wallet
    /\ mints[2].badgeKey = mints[1].badgeKey
    /\ lastRet.op = "initiateMint"
    /\ lastRet.mintId = 2

\* the step is a transaction that calls fn
Calls(fn) == txCount' # txCount /\ lastTx'.fn = fn

\* C30: a token that has a holder keeps that holder or goes to the zero
\* address; a token gets its first holder only in a mintBadge transaction,
\* and mintBadge goes through only when sent by the owner of the contract;
\* a transfer of a held token to a non-zero address reverts, whoever sends
\* it.
C30_Soulbound ==
    [][/\ \A t \in TokenIds :
             /\ tokenOwners[t] # ZeroAddress
                => tokenOwners'[t] \in {tokenOwners[t], ZeroAddress}
             /\ (tokenOwners[t] = ZeroAddress /\ tokenOwners'[t] # ZeroAddress)
                => (Calls("mintBadge") /\ lastTx'.sender = contractOwner)
       /\ (Calls("mintBadge") /\ ~lastTx'.reverted)
             => /\ lastTx'.sender = contractOwner
                /\ tokenOwners'[lastTx'.tokenId] = lastTx'.to
       /\ ((Calls("transferFrom") \/ Calls("safeTransferFrom"))
           /\ tokenOwners[lastTx'.tokenId] # ZeroAddress
           /\ lastTx'.to # ZeroAddress)
             => lastTx'.reverted]_vars

\* C30 witness: the holder of a token has sent it to another account and the
\* transaction has reverted.
C30_Witness ==
    /\ lastTx.fn = "transferFrom"
    /\ lastTx.reverted
    /\ lastTx.tokenId \in TokenIds
    /\ tokenOwners[lastTx.tokenId] = lastTx.sender
    /\ lastTx.to \notin {ZeroAddress, lastTx.sender}

\* an account that is not the owner has called mintBadge for an active type
\* with supply left and was turned down
MintRefusedForStranger ==
    /\ lastTx.fn = "mintBadge"
    /\ lastTx.reverted
    /\ lastTx.sender # contractOwner
    /\ \E k \in BadgeKeyInputs :
          sbtTypes[k].isActive /\ sbtTypes[k].mintedCount < sbtTypes[k].maxSupply

\* row i exists and its status is final
Settled(i) == Len(mints) >= i /\ mints[i].status \in {"completed", "failed"}

\* C31: every row that initiateMint has inserted reaches status completed or
\* failed, also when the save of the result throws.
C31_EveryMintSettles ==
    \A i \in 1..MaxMints : (Len(mints) >= i) ~> Settled(i)

\* the events the step publishes
NewlyPublished ==
    {e \in BagToSet(published') : CopiesIn(e, published') > CopiesIn(e, published)}

\* an event about row id of the given type has been published after the step
PublishedAbout(type, id) ==
    \E e \in BagToSet(published') : e.type = type /\ e.ref = "id" /\ e.mintId = id

\* the row the event names is stored, with the given status
StoredAs(e, status) ==
    /\ e.ref = "id"
    /\ e.mintId \in 1..Len(mints')
    /\ mints'[e.mintId].status = status

\* what holds of every event that a step publishes, but for minting_started
LaterEventsInOrder(e) ==
    /\ e.type = "blockchain_transaction_starting"
          => PublishedAbout("minting_started", e.mintId)
    /\ e.type \in {"minting_completed", "minting_success"}
          => /\ StoredAs(e, "completed")
             /\ mints'[e.mintId].tokenId # 0
             /\ mints'[e.mintId].transactionHash # ""
             /\ CopiesIn(e, published') = 1
             /\ PublishedAbout("blockchain_transaction_starting", e.mintId)
    /\ (e.type = "minting_failed" /\ e.ref = "id")
          => PublishedAbout("blockchain_transaction_starting", e.mintId)

\* the events after minting_started come in order, and minting_completed
\* and minting_success come once, after the row is stored as completed
C32_LaterEvents ==
    [][\A e \in NewlyPublished : LaterEventsInOrder(e)]_vars

\* C32: minting_started is published only with the id of a stored pending
\* row; blockchain_transaction_starting follows minting_started, and
\* minting_completed, minting_success and minting_failed follow it;
\* minting_completed and minting_success are published once each, when the
\* row is stored as completed with its token id and transaction hash.
C32_EventOrder ==
    [][\A e \in NewlyPublished :
          /\ e.type = "minting_started" => StoredAs(e, "pending")
          /\ LaterEventsInOrder(e)]_vars

\* the callback of slot p is past its pending test and waits for the
\* provider, while another callback has just stored the outcome of the same
\* session
SecondCallback(p) ==
    /\ vreq[p].op = "handleDIDVerificationCallback"
    /\ vreq[p].pc = "cb_provider"
    /\ vret.op = "handleDIDVerificationCallback"
    /\ ~vret.threw
    /\ vret.id = vreq[p].id
    /\ verifs[vreq[p].id].status \in {"completed", "failed"}

\* C33: of two overlapping callbacks of one pending session only the first
\* to end writes the status; the other ends with 'Verification already
\* processed' and leaves the row as it is, so that completed is never
\* replaced by failed nor failed by completed.
C33_OneCallbackWrites ==
    [][\A p \in Procs :
          (SecondCallback(p) /\ vreq'[p].pc = "idle")
          => /\ vret'.threw
             /\ vret'.error = "Verification already processed"
             /\ verifs' = verifs]_vars

\* the results of the listed providers of the last call combined with op
PrimaryUnder(op) ==
    IF Len(elig.result.primary) = 0 THEN TRUE
    ELSE IF op = "AND"
         THEN \A i \in 1..Len(elig.result.primary) : elig.result.primary[i].verified
         ELSE \E i \in 1..Len(elig.result.primary) : elig.result.primary[i].verified

\* the results of the required secondary entries of the last call combined
\* with op
SecondaryUnder(op) ==
    IF RequiredEntries = {} THEN TRUE
    ELSE IF op = "AND"
         THEN \A i \in RequiredEntries : elig.result.secondary[i].verified
         ELSE \E i \in RequiredEntries : elig.result.secondary[i].verified

\* the verdicts of the last call are those of op applied to both groups
BothUnder(op) ==
    /\ elig.result.primaryEligible = PrimaryUnder(op)
    /\ elig.result.eligible = (PrimaryUnder(op) /\ SecondaryUnder(op))

\* C34: the verdicts of a checkEligibility call that returns are those of one
\* operator, AND or OR, applied to the listed providers and to the required
\* secondary entries alike: rules.logic when the rules have it, and one of
\* the two when they do not.
C34_SameOperator ==
    Returned =>
        IF EvaluatedRules.logic = "absent"
        THEN BothUnder("AND") \/ BothUnder("OR")
        ELSE BothUnder(EvaluatedRules.logic)

\* with rules.logic present both groups are combined with it
C34_WithLogicPresent ==
    (Returned /\ EvaluatedRules.logic # "absent") => BothUnder(EvaluatedRules.logic)

\* C35: every stored row with isRevoked = true has status completed.
C35_RevokedIsCompleted ==
    \A i \in 1..Len(mints) : mints[i].isRevoked => mints[i].status = "completed"

\* how many minting_failed events the bag holds for the receiver
FailedCount(bag, scope, to) ==
    LET hits == {e \in BagToSet(bag) :
                    e.type = "minting_failed" /\ e.scope = scope /\ e.to = to}
    IN IF hits = {} THEN 0
       ELSE BagCardinality([e \in hits |-> CopiesIn(e, bag)])

\* slot p holds an initiateMint call that takes a step
MintCallSteps(p) == req[p].op = "initiateMint" /\ req'[p] # req[p]

\* C36: no step of an initiateMint call publishes more than one
\* minting_failed event to the wallet or more than one to the minting
\* channel, and the step that publishes one ends the call.
C36_OneFailureEvent ==
    [][\A p \in Procs :
          MintCallSteps(p)
          => /\ FailedCount(published', "wallet", req[p].wallet)
                   <= FailedCount(published, "wallet", req[p].wallet) + 1
             /\ FailedCount(published', "channel", "minting")
                   <= FailedCount(published, "channel", "minting") + 1
             /\ FailedCount(published', "wallet", req[p].wallet)
                   > FailedCount(published, "wallet", req[p].wallet)
                => req'[p].pc = "idle"]_vars

\* the rows of vs that are usable at time t and belong to the pair of row j
UsableOfPair(vs, t, j) ==
    {i \in 1..Len(vs) :
        /\ vs[i].wallet = vs[j].wallet
        /\ vs[i].provider = vs[j].provider
        /\ vs[i].status = "completed"
        /\ (vs[i].expiresAt = NoExpiry \/ vs[i].expiresAt > t)}

C38_EligibleMeansNothingMissing ==
    (Returned /\ elig.result.eligible) => elig.result.missingRequirements = <<>>

\* the open connections whose wallet is the given one up to letter case
ConnectionsOf(wallet) ==
    {c \in registry :
        /\ clients[c].user # ""
        /\ ToLower(clients[c].user) = ToLower(wallet)
        /\ IsOpen(c)}

\* C39: a wallet-scoped event reaches every open connection authenticated as
\* the wallet it is about, also when the two addresses differ in letter case.
C39_WalletEventsReachWallet ==
    lastCall.op = "sendToWallet" => ConnectionsOf(lastCall.target) \subseteq delivered

\* a completed, unrevoked mint record of the pair is stored
StoreHolds(wallet, key) ==
    \E i \in 1..Len(mints) :
        /\ mints[i].wallet = wallet
        /\ mints[i].badgeKey = key
        /\ mints[i].status = "completed"
        /\ ~mints[i].isRevoked

\* C40: with the contract configured and no mint in flight, hasBadge is true
\* of a (wallet, badge type) pair exactly when the store holds a completed,
\* unrevoked record of the pair.
C40_LedgerAgreesWithStore ==
    (web3Configured /\ AllIdle)
        => \A w \in {Addr(x) : x \in WalletInputs}, k \in BadgeKeyInputs :
              (<<w, k>> \in hasMintedBadge) <=> StoreHolds(w, k)

=============================================================================
